---------------------------- MODULE Spec2Model ----------------------------
(***************************************************************************)
(* HashRust: command-line file hasher.                                     *)
(*                                                                         *)
(* The source tree holds two revisions of the coordinator: the modular one *)
(* (cli/args.rs, io/files.rs, core/worker.rs, hash/algorithms.rs,          *)
(* hash/digest_impl.rs) and the monolithic one (main.rs with progress.rs). *)
(* The variable rev says which of the two a run executes; definitions      *)
(* prefixed main_ are translated from main.rs, the unprefixed ones from    *)
(* the modular files.  main.rs calls hash_file_encoded of a hasher module   *)
(* whose text at that revision is not in the tree; both revisions run the  *)
(* engine of hash/digest_impl.rs here.                                     *)
(***************************************************************************)
EXTENDS Integers, Sequences, FiniteSets, TLC

(***************************************************************************)
(* Bounds of the model.                                                    *)
(***************************************************************************)
\* longest list of supplied patterns / stdin lines
MaxPaths == 2

(***************************************************************************)
(* Enumerations (core/types.rs).                                           *)
(***************************************************************************)
HashAlgorithm ==
    {"CRC32", "MD5", "SHA1", "SHA2_256", "SHA2_224", "SHA2_384", "SHA3_256",
     "SHA2_512", "SHA3_384", "SHA3_512", "Whirlpool", "Blake2B512", "Blake2S256"}

OutputEncoding == {"Hex", "Base64", "Base32", "U32"}

DEFAULT_HASH == "SHA3_256"

\* an absent command-line option (Option::None)
NONE == "<none>"

(***************************************************************************)
(* strum EnumString tables.  Both enums are ascii_case_insensitive: a name *)
(* is compared after folding ASCII case.                                   *)
(***************************************************************************)
AsciiUpper(s) ==
    CASE s = "md5"    -> "MD5"
      [] s = "crc32"  -> "CRC32"
      [] s = "sha2"   -> "SHA2"
      [] s = "Hex"    -> "HEX"
      [] s = "hex"    -> "HEX"
      [] s = "Base64" -> "BASE64"
      [] s = "base64" -> "BASE64"
      [] s = "Base32" -> "BASE32"
      [] s = "u32"    -> "U32"
      [] OTHER        -> s

AlgorithmNames ==
    [CRC32      |-> {"CRC32", "CRC-32"},
     MD5        |-> {"MD5", "MD-5"},
     SHA1       |-> {"SHA1", "SHA-1"},
     SHA2_256   |-> {"SHA2", "SHA2-256", "SHA2_256", "SHA_256", "SHA-256"},
     SHA2_224   |-> {"SHA2-224", "SHA2_224"},
     SHA2_384   |-> {"SHA2-384", "SHA2_384"},
     SHA3_256   |-> {"SHA3", "SHA3-256", "SHA3_256"},
     SHA2_512   |-> {"SHA2-512", "SHA2_512"},
     SHA3_384   |-> {"SHA3-384", "SHA3_384"},
     SHA3_512   |-> {"SHA3-512", "SHA3_512"},
     Whirlpool  |-> {"WHIRLPOOL"},
     Blake2B512 |-> {"BLAKE2B-512", "BLAKE2B_512"},
     Blake2S256 |-> {"BLAKE2S-256", "BLAKE2S_256"}]

EncodingNames ==
    [Hex |-> {"HEX"}, Base64 |-> {"BASE64"}, Base32 |-> {"BASE32"}, U32 |-> {"U32"}]

\* Result values: Ok(v) / Err(e)
Ok(v) == [ok |-> TRUE, val |-> v]
Err(e) == [ok |-> FALSE, err |-> e]

HashAlgorithm_from_str(s) ==
    LET hits == {a \in HashAlgorithm : AsciiUpper(s) \in AlgorithmNames[a]}
    IN  IF hits = {} THEN Err("ParseError") ELSE Ok(CHOOSE a \in hits : TRUE)

OutputEncoding_from_str(s) ==
    LET hits == {e \in OutputEncoding : AsciiUpper(s) \in EncodingNames[e]}
    IN  IF hits = {} THEN Err("ParseError") ELSE Ok(CHOOSE e \in hits : TRUE)

\* cli/args.rs parse_hash_algorithm
parse_hash_algorithm(algorithm) ==
    IF algorithm # NONE /\ algorithm # ""
    THEN HashAlgorithm_from_str(algorithm)
    ELSE Ok(DEFAULT_HASH)

\* cli/args.rs parse_hash_encoding: Ok(Some(enc)) / Ok(None) / Err
parse_hash_encoding(encoding) ==
    IF encoding # NONE /\ encoding # ""
    THEN LET r == OutputEncoding_from_str(encoding)
         IN  IF r.ok THEN Ok(r.val) ELSE r
    ELSE Ok(NONE)


(***************************************************************************)
(* main.rs revision: classes.rs adds the variant Unspecified to            *)
(* OutputEncoding, and parse_hash_encoding returns it for an absent or     *)
(* empty argument.                                                         *)
(***************************************************************************)
main_OutputEncoding == OutputEncoding \cup {"Unspecified"}

main_OutputEncoding_from_str(s) ==
    IF AsciiUpper(s) = "UNSPECIFIED" THEN Ok("Unspecified")
    ELSE OutputEncoding_from_str(s)

main_parse_hash_encoding(encoding) ==
    IF encoding # NONE /\ encoding # ""
    THEN main_OutputEncoding_from_str(encoding)
    ELSE Ok("Unspecified")

(***************************************************************************)
(* The file system the program runs against.  kind: "file" is a readable   *)
(* regular file, "unreadable" a regular file whose open is denied, "dir" a *)
(* directory, "missing" a name that does not exist.                        *)
(***************************************************************************)
BUFFER_SIZE == 32768

FileSystem ==
    [a   |-> [kind |-> "file",       size |-> 11],
     big |-> [kind |-> "file",       size |-> 40000],
     u   |-> [kind |-> "unreadable", size |-> 7],
     d   |-> [kind |-> "dir",        size |-> 4096],
     m   |-> [kind |-> "missing",    size |-> 0]]

PathNames == DOMAIN FileSystem

KindOf(p) == IF p \in PathNames THEN FileSystem[p].kind ELSE "missing"

\* Path::exists / Path::is_file / Path::is_dir
exists(p) == KindOf(p) # "missing"
is_file(p) == KindOf(p) \in {"file", "unreadable"}
is_dir(p) == KindOf(p) = "dir"

\* hasher.rs file_exists
file_exists(p) == exists(p) /\ is_file(p)

\* what a file operation of the hashing engine does to the file system fs:
\* Path::metadata ("stat"), File::open ("open", read-only), Read::read
\* ("read") and std::fs::read ("read_whole") leave every file as it is;
\* File::create ("create") makes the file, or empties the one that exists
FileOp(fs, path, op) ==
    CASE op \in {"stat", "open", "read", "read_whole"} -> fs
      [] op = "create" ->
            IF path \in DOMAIN fs /\ fs[path].kind \in {"file", "missing"}
            THEN [fs EXCEPT ![path] = [kind |-> "file", size |-> 0]]
            ELSE fs

\* the file system after the operations ops on path, in their order
RECURSIVE FileOps(_, _, _)
FileOps(fs, path, ops) ==
    IF ops = <<>> THEN fs
    ELSE FileOps(FileOp(fs, path, Head(ops)), path, Tail(ops))

(***************************************************************************)
(* Digest adapters: output size in bytes of each algorithm's Digest type.  *)
(***************************************************************************)
OutputSize ==
    [CRC32 |-> 4, MD5 |-> 16, SHA1 |-> 20, SHA2_256 |-> 32, SHA2_224 |-> 28,
     SHA2_384 |-> 48, SHA3_256 |-> 32, SHA2_512 |-> 64, SHA3_384 |-> 48,
     SHA3_512 |-> 64, Whirlpool |-> 64, Blake2B512 |-> 64, Blake2S256 |-> 32]

\* the raw digest of a file's content: its bytes are kept abstract, its
\* length is the algorithm's output size
RawDigest(algo, path) == [algo |-> algo, content |-> path, len |-> OutputSize[algo]]

\* number of read() calls of the streaming loop over a file of n bytes:
\* one per chunk, and the final read that returns zero bytes
RECURSIVE StreamReads(_)
StreamReads(n) ==
    IF n = 0 THEN <<"read">>
    ELSE <<"read">> \o StreamReads(IF n > BUFFER_SIZE THEN n - BUFFER_SIZE ELSE 0)

\* digest_impl.rs file_size: path.metadata()?.len()
file_size(path) ==
    IF exists(path) THEN Ok(FileSystem[path].size) ELSE Err("io: not found")

\* hash_file_whole with the file opened by File::create before it is read
hash_file_whole_create(algo, path) ==
    IF KindOf(path) = "file"
    THEN [res |-> Ok(RawDigest(algo, path)), io |-> <<"create", "read_whole">>]
    ELSE [res |-> Err(IF is_dir(path) THEN "io: is a directory"
                      ELSE IF exists(path) THEN "io: permission denied"
                      ELSE "io: not found"),
          io |-> <<"create", "read_whole">>]

\* digest_impl.rs hash_file_whole
hash_file_whole(algo, path) ==
    IF KindOf(path) = "file"
    THEN [res |-> Ok(RawDigest(algo, path)), io |-> <<"read_whole">>]
    ELSE [res |-> Err(IF is_dir(path) THEN "io: is a directory"
                      ELSE IF exists(path) THEN "io: permission denied"
                      ELSE "io: not found"),
          io |-> <<"read_whole">>]

\* digest_impl.rs hash_file: result and the file operations it performed
hash_file(algo, path) ==
    LET sz == file_size(path) IN
    IF ~sz.ok THEN [res |-> sz, io |-> <<"stat">>]
    ELSE IF sz.val <= BUFFER_SIZE
    THEN LET w == hash_file_whole(algo, path)
         IN  [res |-> w.res, io |-> <<"stat">> \o w.io]
    ELSE IF KindOf(path) = "unreadable"
    THEN [res |-> Err("io: permission denied"), io |-> <<"stat", "open">>]
    ELSE IF is_dir(path)
    THEN [res |-> Err("io: is a directory"), io |-> <<"stat", "open", "read">>]
    ELSE [res |-> Ok(RawDigest(algo, path)),
          io |-> <<"stat", "open">> \o StreamReads(sz.val)]

\* digest_impl.rs hash_file_encoded
hash_file_encoded(algo, path, encoding) ==
    LET h == hash_file(algo, path) IN
    IF ~h.res.ok THEN h
    ELSE IF encoding = "U32" /\ h.res.val.len # 4
    THEN [res |-> Err("When U32 is requested, hash size must be 4 bytes"), io |-> h.io]
    ELSE [res |-> Ok([encoding |-> encoding, digest |-> h.res.val]), io |-> h.io]

PairingError == "CRC32 must use U32 encoding, and U32 encoding can only be used with CRC32"

\* call_hasher with the rule checked only once the file has been hashed
call_hasher_late_check(algo, encoding, path) ==
    LET h == hash_file_encoded(algo, path, IF algo = "CRC32" THEN "U32" ELSE encoding) IN
    IF ~h.res.ok THEN h
    ELSE IF (algo = "CRC32" /\ encoding # "U32") \/ (algo # "CRC32" /\ encoding = "U32")
    THEN [res |-> Err(PairingError), io |-> h.io]
    ELSE h

\* call_hasher without the check of the rule
call_hasher_unchecked(algo, encoding, path) ==
    IF algo = "CRC32"
    THEN hash_file_encoded(algo, path, "U32")
    ELSE hash_file_encoded(algo, path, encoding)

\* hash/algorithms.rs call_hasher (main.rs call_hasher is the same text)
call_hasher(algo, encoding, path) ==
    IF (algo = "CRC32" /\ encoding # "U32") \/ (algo # "CRC32" /\ encoding = "U32")
    THEN [res |-> Err(PairingError), io |-> <<>>]
    ELSE IF algo = "CRC32"
    THEN hash_file_encoded(algo, path, "U32")
    ELSE hash_file_encoded(algo, path, encoding)

(***************************************************************************)
(* Command line.  args is the pico_args Arguments value: the -a and -e     *)
(* option values, the flags, the -l value, whether an argument starting    *)
(* with a dash is left over, and the free arguments (the patterns).        *)
(***************************************************************************)
NO_LIMIT == -1

\* usize::from_str on the -l value
ParseUsize(s) ==
    CASE s = "0" -> Ok(0)
      [] s = "1" -> Ok(1)
      [] s = "2" -> Ok(2)
      [] s = "3" -> Ok(3)
      [] OTHER   -> Err("invalid digit found in string")

\* pargs.opt_value_from_str(["-l", "--limit"])
opt_limit(args) ==
    IF args.limit = NONE THEN Ok(NO_LIMIT) ELSE ParseUsize(args.limit)

\* cli/config.rs ConfigSettings::new followed by the supplied paths
ConfigSettings(args, algo, encoding, limit) ==
    [debug_mode     |-> args.debug,
     exclude_fn     |-> args.exclude_fn,
     single_thread  |-> args.single_thread,
     case_sensitive |-> args.case_sensitive,
     no_progress    |-> args.no_progress,
     algorithm      |-> algo,
     encoding       |-> encoding,
     limit_num      |-> limit,
     supplied_paths |-> args.paths]

AlgorithmError == "Algorithm can be: CRC32, MD5, SHA1, ..."
EncodingError == "Encoding can be: Hex, Base64, Base32. Default is Hex"
UnknownArgument == "Unknown argument"

\* what process_command_line does after the encoding is resolved and the
\* pairing accepted: flags, -l, args_finished, ConfigSettings::new
finish_command_line(args, algo, encoding, leftover_dash) ==
    LET l == opt_limit(args) IN
    IF ~l.ok THEN l
    ELSE IF leftover_dash THEN Err(UnknownArgument)
    ELSE Ok(ConfigSettings(args, algo, encoding, l.val))

\* process_command_line with Hex as the default encoding of every algorithm
process_command_line_hex_default(args) ==
    LET algo == parse_hash_algorithm(args.algorithm) IN
    IF ~algo.ok THEN Err(AlgorithmError)
    ELSE LET encoding_opt == parse_hash_encoding(args.encoding) IN
    IF ~encoding_opt.ok THEN Err(EncodingError)
    ELSE LET encoding == IF encoding_opt.val # NONE THEN encoding_opt.val ELSE "Hex" IN
    IF (algo.val = "CRC32" /\ encoding # "U32")
       \/ (algo.val # "CRC32" /\ encoding = "U32")
    THEN Err(PairingError)
    ELSE finish_command_line(args, algo.val, encoding, args.unknown_dash)

\* cli/args.rs process_command_line
process_command_line(args) ==
    LET algo == parse_hash_algorithm(args.algorithm) IN
    IF ~algo.ok THEN Err(AlgorithmError)
    ELSE LET encoding_opt == parse_hash_encoding(args.encoding) IN
    IF ~encoding_opt.ok THEN Err(EncodingError)
    ELSE LET encoding == IF encoding_opt.val # NONE THEN encoding_opt.val
                         ELSE IF algo.val = "CRC32" THEN "U32"
                         ELSE "Hex" IN
    IF (algo.val = "CRC32" /\ encoding # "U32")
       \/ (algo.val # "CRC32" /\ encoding = "U32")
    THEN Err(PairingError)
    ELSE finish_command_line(args, algo.val, encoding, args.unknown_dash)

\* main.rs process_command_line.  This revision does not know the flag
\* -n/--no-progress: when given it is left over and args_finished rejects it.
main_process_command_line(args) ==
    LET algo == parse_hash_algorithm(args.algorithm) IN
    IF ~algo.ok THEN Err(AlgorithmError)
    ELSE LET parsed == main_parse_hash_encoding(args.encoding) IN
    IF ~parsed.ok THEN Err(EncodingError)
    ELSE LET encoding == IF parsed.val = "Unspecified"
                         THEN (IF algo.val = "CRC32" THEN "U32" ELSE "Hex")
                         ELSE parsed.val IN
    IF algo.val = "CRC32" /\ encoding # "U32"
    THEN Err(PairingError)
    ELSE finish_command_line(args, algo.val, encoding,
                             args.unknown_dash \/ args.no_progress)

(***************************************************************************)
(* Path resolution (io/files.rs, and its older text in main.rs).           *)
(***************************************************************************)
\* pattern.contains(['*', '?', '[', ']'])
HasMeta(pattern) == pattern \in {"*", "z*", "["}

\* glob::glob_with(pattern, options): the entries the pattern yields, or
\* the pattern error of a malformed pattern
glob_with(pattern, case_sensitive) ==
    CASE pattern = "["  -> Err("PatternError")
      [] pattern = "*"  -> Ok(<<"a", "big", "d", "u">>)
      [] pattern = "z*" -> Ok(<<>>)
      [] pattern = "A"  -> IF case_sensitive THEN Ok(<<>>) ELSE Ok(<<"a">>)
      [] OTHER          -> IF exists(pattern) THEN Ok(<<pattern>>) ELSE Ok(<<>>)

\* the filter_map of both revisions: keep the entries that are files
RECURSIVE FilterFiles(_)
FilterFiles(entries) ==
    IF entries = <<>> THEN <<>>
    ELSE (IF is_file(Head(entries)) THEN <<Head(entries)>> ELSE <<>>)
         \o FilterFiles(Tail(entries))

\* a truncation that keeps the last n elements
truncate_keep_last(v, n) == IF n < Len(v) THEN SubSeq(v, Len(v) - n + 1, Len(v)) ELSE v

\* Vec::truncate
truncate(v, n) == IF n < Len(v) THEN SubSeq(v, 1, n) ELSE v

\* get_paths_matching_glob that passes over a name that is not found
RECURSIVE get_paths_matching_glob_lenient(_, _, _)
get_paths_matching_glob_lenient(config, i, result) ==
    IF i > Len(config.supplied_paths) THEN Ok(result)
    ELSE LET pattern == config.supplied_paths[i]
             glob_result == glob_with(pattern, config.case_sensitive) IN
         IF glob_result.ok
         THEN LET glob_matches == FilterFiles(glob_result.val) IN
              IF glob_matches = <<>>
              THEN IF is_file(pattern)
                   THEN get_paths_matching_glob_lenient(config, i + 1, Append(result, pattern))
                   ELSE get_paths_matching_glob_lenient(config, i + 1, result)
              ELSE get_paths_matching_glob_lenient(config, i + 1, result \o glob_matches)
         ELSE IF is_file(pattern)
              THEN get_paths_matching_glob_lenient(config, i + 1, Append(result, pattern))
              ELSE Err("File not found or invalid glob")

\* io/files.rs get_paths_matching_glob, from pattern number i on
RECURSIVE get_paths_matching_glob(_, _, _)
get_paths_matching_glob(config, i, result) ==
    IF i > Len(config.supplied_paths) THEN Ok(result)
    ELSE LET pattern == config.supplied_paths[i]
             glob_result == glob_with(pattern, config.case_sensitive) IN
         IF glob_result.ok
         THEN LET glob_matches == FilterFiles(glob_result.val) IN
              IF glob_matches = <<>>
              THEN IF is_file(pattern)
                   THEN get_paths_matching_glob(config, i + 1, Append(result, pattern))
                   ELSE IF ~HasMeta(pattern)
                   THEN IF exists(pattern) /\ is_dir(pattern)
                        THEN get_paths_matching_glob(config, i + 1, result)
                        ELSE Err("File not found")
                   ELSE get_paths_matching_glob(config, i + 1, result)
              ELSE get_paths_matching_glob(config, i + 1, result \o glob_matches)
         ELSE IF is_file(pattern)
              THEN get_paths_matching_glob(config, i + 1, Append(result, pattern))
              ELSE Err("File not found or invalid glob")

\* main.rs get_paths_matching_glob: a malformed pattern is an error at once
RECURSIVE main_get_paths_matching_glob(_, _, _)
main_get_paths_matching_glob(config, i, result) ==
    IF i > Len(config.supplied_paths) THEN Ok(result)
    ELSE LET pattern == config.supplied_paths[i]
             glob_result == glob_with(pattern, config.case_sensitive) IN
         IF ~glob_result.ok THEN glob_result
         ELSE LET glob_matches == FilterFiles(glob_result.val) IN
              IF glob_matches = <<>>
              THEN IF file_exists(pattern)
                   THEN main_get_paths_matching_glob(config, i + 1, Append(result, pattern))
                   ELSE IF ~HasMeta(pattern)
                   THEN IF exists(pattern) /\ is_dir(pattern)
                        THEN main_get_paths_matching_glob(config, i + 1, result)
                        ELSE Err("File not found")
                   ELSE main_get_paths_matching_glob(config, i + 1, result)
              ELSE main_get_paths_matching_glob(config, i + 1, result \o glob_matches)

\* get_paths_from_stdin of both revisions: the lines that name a file
get_paths_from_stdin(lines) == FilterFiles(lines)

\* get_paths_from_stdin of both revisions: in debug mode, the message for
\* each line that names no file
RECURSIVE NotFileMsgs(_)
NotFileMsgs(lines) ==
    IF lines = <<>> THEN <<>>
    ELSE (IF is_file(Head(lines)) THEN <<>> ELSE <<<<"debug", "Not a file">>>>)
         \o NotFileMsgs(Tail(lines))

\* what get_required_filenames writes to standard error
StdinDiagnostics(config, lines) ==
    IF config.supplied_paths = <<>> /\ config.debug_mode THEN NotFileMsgs(lines) ELSE <<>>

\* io/files.rs get_required_filenames
get_required_filenames(config, lines) ==
    LET found == IF config.supplied_paths = <<>>
                 THEN Ok(get_paths_from_stdin(lines))
                 ELSE get_paths_matching_glob(config, 1, <<>>) IN
    IF ~found.ok THEN found
    ELSE IF config.limit_num # NO_LIMIT
    THEN Ok(truncate(found.val, config.limit_num))
    ELSE found

\* main.rs get_required_filenames
main_get_required_filenames(config, lines) ==
    LET found == IF config.supplied_paths = <<>>
                 THEN Ok(get_paths_from_stdin(lines))
                 ELSE main_get_paths_matching_glob(config, 1, <<>>) IN
    IF ~found.ok THEN found
    ELSE IF config.limit_num # NO_LIMIT
    THEN Ok(truncate(found.val, config.limit_num))
    ELSE found

(***************************************************************************)
(* Output.  stdout is the sequence of pieces written to the stream; a      *)
(* println! formats its arguments piece by piece while it holds the stdout *)
(* lock.  stderr is a sequence of whole messages.                          *)
(***************************************************************************)
HashPiece(h) == <<"hash", h.encoding, h.digest.algo, h.digest.content>>
PathPiece(p) == <<"path", p>>
SP == <<"lit", " ">>
NL == <<"lit", "\n">>

\* a result line that carries the path whatever exclude_fn says
ResultLine_with_path(cfg, h, p) == <<HashPiece(h), SP, PathPiece(p), NL>>

\* the text of a result line: "{basic_hash}\n" or "{basic_hash} {pathstr}\n"
ResultLine(cfg, h, p) ==
    IF cfg.exclude_fn THEN <<HashPiece(h), NL>>
    ELSE <<HashPiece(h), SP, PathPiece(p), NL>>

\* a line printed with one write call per piece
println_pieces(line) == [k \in 1..Len(line) |-> <<line[k]>>]

\* println!(line): the write calls made on stdout, each under one
\* acquisition of the stdout lock.  println! makes a single call.
println(line) == <<line>>

RECURSIVE Concat(_)
Concat(calls) == IF calls = <<>> THEN <<>> ELSE Head(calls) \o Concat(Tail(calls))

FileErrorMsg(p, e) == <<"file_error", p, e>>
DebugMsg(m) == <<"debug", m>>

\* the two lines show_help(false) prints, and the text of show_help(true)
HelpShort == <<<<"lit", "File hasher for various algorithms">>, NL,
               <<"lit", "Default algorithm is SHA3_256">>, NL>>
HelpLong == <<<<"lit", "File hasher for various algorithms">>, NL,
              <<"lit", "USAGE:">>, NL,
              <<"lit", "Default algorithm is SHA3_256">>, NL>>

(***************************************************************************)
(* Progress constants (progress.rs).                                       *)
(***************************************************************************)
MAX_PROGRESS_THREADS == 4
\* create_overall_progress shows a bar from this number of files on
OVERALL_MIN_FILES == 10

(***************************************************************************)
(* State.                                                                  *)
(***************************************************************************)
VARIABLES
    rev,            \* "modular" or "monolith": the revision that runs
    args,           \* the command line as given
    stdin,          \* the lines waiting on standard input
    pc,             \* control point of the main thread
    config,         \* the ConfigSettings, once built
    paths,          \* the resolved path list
    idx,            \* position of the sequential loop / of the print loop
    cur,            \* sequential mode: result of the file being processed
    jobs,           \* parallel mode: per path, the worker's position and result
    coordinator,    \* core/worker.rs: whether a ProgressCoordinator exists
    overall,        \* the aggregate progress bar, if any
    spinners,       \* positions whose per-file spinner is displayed
    helper,         \* progress.rs: state of the helper thread of the file
    signal,         \* progress.rs: a completion message is in the channel
    active_threads, \* progress.rs: ACTIVE_PROGRESS_THREADS
    stdout,         \* pieces written to standard output
    stdout_lock,    \* position of the worker holding the stdout lock, or 0
    pending,        \* pieces the lock holder has still to write
    stderr,         \* messages written to standard error
    had_error,      \* core/worker.rs: the had_error flag
    error,          \* the Err value travelling up to main, or NONE
    exit_code,      \* the process exit status, -1 while running
    io_ops,         \* file operations performed by the hashing engine
    disk,           \* the file system, as the file operations of the run leave it
    hash_calls,     \* per path position, the number of call_hasher calls
    call            \* a direct call of a function, as the unit tests make

vars == <<rev, args, stdin, pc, config, paths, idx, cur, jobs, coordinator,
          overall, spinners, helper, signal, active_threads, stdout,
          stdout_lock, pending, stderr, had_error, error, exit_code, io_ops, disk,
          hash_calls, call>>

NoArgs == [algorithm |-> NONE, encoding |-> NONE, debug |-> FALSE,
           exclude_fn |-> FALSE, single_thread |-> FALSE,
           case_sensitive |-> FALSE, no_progress |-> FALSE, limit |-> NONE,
           unknown_dash |-> FALSE, paths |-> <<>>]
NoConfig == [algorithm |-> NONE]
NoResult == [ok |-> FALSE, err |-> NONE]
NoBar == [exists |-> FALSE, pos |-> 0, len |-> 0, finished |-> FALSE]
NoCall == [fn |-> NONE]

progress_vars == <<coordinator, overall, spinners, helper, signal, active_threads>>
output_vars == <<stdout, stdout_lock, pending, stderr>>
input_vars == <<rev, args, stdin>>

(***************************************************************************)
(* Inputs of a run.                                                        *)
(***************************************************************************)
AlgoArgs == {NONE, "crc32", "md5", "BOGUS"}
EncArgs == {NONE, "", "base64", "U32", "BOGUS"}
LimitArgs == {NONE, "1", "x"}
PatternPool == {"a", "u", "m"}

RECURSIVE SeqsUpTo(_, _)
SeqsUpTo(S, n) ==
    IF n = 0 THEN {<<>>}
    ELSE LET shorter == SeqsUpTo(S, n - 1)
         IN  shorter \cup {Append(q, x) : q \in {r \in shorter : Len(r) = n - 1}, x \in S}

PathLists == SeqsUpTo(PatternPool, MaxPaths)

\* a command line with an option that no revision accepts: such a run ends
\* in main before any path is looked at, and is given one pattern at most
Malformed(a) ==
    a.algorithm = "BOGUS" \/ a.encoding = "BOGUS" \/ a.limit = "x" \/ a.unknown_dash

Init ==
    /\ rev \in {"modular", "monolith"}
    /\ args \in [algorithm : AlgoArgs, encoding : EncArgs, debug : BOOLEAN,
                 exclude_fn : BOOLEAN, single_thread : BOOLEAN,
                 case_sensitive : {FALSE}, no_progress : BOOLEAN,
                 limit : LimitArgs, unknown_dash : BOOLEAN, paths : PathLists]
    /\ Malformed(args) => Len(args.paths) <= 1
    /\ stdin \in (IF args.paths = <<>> /\ ~Malformed(args) THEN PathLists ELSE {<<>>})
    /\ pc = "start"
    /\ config = NoConfig
    /\ paths = <<>>
    /\ idx = 0
    /\ cur = NoResult
    /\ jobs = <<>>
    /\ coordinator = FALSE
    /\ overall = NoBar
    /\ spinners = {}
    /\ helper = "none"
    /\ signal = FALSE
    /\ active_threads = 0
    /\ stdout = <<>>
    /\ stdout_lock = 0
    /\ pending = <<>>
    /\ stderr = <<>>
    /\ had_error = FALSE
    /\ error = NONE
    /\ exit_code = -1
    /\ io_ops = 0
    /\ disk = FileSystem
    /\ hash_calls = <<>>
    /\ call = NoCall

(***************************************************************************)
(* Helpers of the actions.                                                 *)
(***************************************************************************)
\* whether the hash took at least the progress threshold: decided by the
\* clock, and looked at in debug mode only
Longs == IF config.debug_mode THEN BOOLEAN ELSE {FALSE}

TimingMsgs(long) ==
    IF config.debug_mode /\ long THEN <<DebugMsg("File took long to hash")>> ELSE <<>>

ModeMsgs(mode) ==
    IF config.debug_mode THEN <<DebugMsg(mode), DebugMsg("Algorithm")>> ELSE <<>>

NewJob(start) == [pc |-> start, res |-> NoResult, calls |-> <<>>]

(***************************************************************************)
(* Modular revision: main, cli/args.rs, core/worker.rs.                    *)
(***************************************************************************)
\* main calls process_command_line (cli/args.rs)
ProcessCommandLine ==
    /\ pc = "start" /\ rev = "modular"
    /\ LET r == process_command_line(args) IN
       IF r.ok
       THEN /\ config' = r.val
            /\ pc' = "worker"
            /\ error' = error
       ELSE /\ error' = r.err
            /\ pc' = "main_err"
            /\ config' = config
    /\ UNCHANGED <<input_vars, paths, idx, cur, jobs, progress_vars, output_vars,
                   had_error, exit_code, io_ops, disk, hash_calls, call>>

\* main on an Err of the run: the error and the usage help go to standard
\* error, the exit status is non-zero
MainErr ==
    /\ pc = "main_err" /\ rev = "modular"
    /\ stderr' = stderr \o <<<<"help", "USAGE:">>, <<"error", error>>>>
    /\ exit_code' = 1
    /\ pc' = "exited"
    /\ UNCHANGED <<input_vars, config, paths, idx, cur, jobs, progress_vars,
                   stdout, stdout_lock, pending, had_error, error, io_ops, disk,
                   hash_calls, call>>

\* worker_func that looks at the single-thread flag alone
WorkerFunc_flag_only ==
    /\ pc = "worker" /\ rev = "modular"
    /\ LET info == IF config.debug_mode
                   THEN <<<<"help", "short">>, DebugMsg("Config"), DebugMsg("Paths")>>
                   ELSE <<>>
           r == get_required_filenames(config, stdin) IN
       IF ~r.ok
       THEN /\ error' = r.err
            /\ pc' = "main_err"
            /\ stderr' = stderr \o info \o StdinDiagnostics(config, stdin)
            /\ UNCHANGED <<paths, hash_calls, exit_code>>
       ELSE IF r.val = <<>>
       THEN /\ stderr' = stderr \o info \o StdinDiagnostics(config, stdin) \o
                         (IF config.debug_mode THEN <<DebugMsg("No files found")>> ELSE <<>>)
            /\ exit_code' = 0
            /\ pc' = "exited"
            /\ UNCHANGED <<paths, hash_calls, error>>
       ELSE /\ paths' = r.val
            /\ hash_calls' = [i \in 1..Len(r.val) |-> 0]
            /\ stderr' = stderr \o info \o StdinDiagnostics(config, stdin) \o
                         (IF config.debug_mode THEN <<DebugMsg("Files to hash")>> ELSE <<>>)
            /\ pc' = IF config.single_thread
                     THEN "st_begin" ELSE "mt_begin"
            /\ UNCHANGED <<error, exit_code>>
    /\ stdin' = <<>>
    /\ UNCHANGED <<rev, args, config, idx, cur, jobs, progress_vars, stdout,
                   stdout_lock, pending, had_error, io_ops, disk, call>>

\* core/worker.rs worker_func up to the choice of the mode
WorkerFunc ==
    /\ pc = "worker" /\ rev = "modular"
    /\ LET info == IF config.debug_mode
                   THEN <<<<"help", "short">>, DebugMsg("Config"), DebugMsg("Paths")>>
                   ELSE <<>>
           r == get_required_filenames(config, stdin) IN
       IF ~r.ok
       THEN /\ error' = r.err
            /\ pc' = "main_err"
            /\ stderr' = stderr \o info \o StdinDiagnostics(config, stdin)
            /\ UNCHANGED <<paths, hash_calls, exit_code>>
       ELSE IF r.val = <<>>
       THEN /\ stderr' = stderr \o info \o StdinDiagnostics(config, stdin) \o
                         (IF config.debug_mode THEN <<DebugMsg("No files found")>> ELSE <<>>)
            /\ exit_code' = 0
            /\ pc' = "exited"
            /\ UNCHANGED <<paths, hash_calls, error>>
       ELSE /\ paths' = r.val
            /\ hash_calls' = [i \in 1..Len(r.val) |-> 0]
            /\ stderr' = stderr \o info \o StdinDiagnostics(config, stdin) \o
                         (IF config.debug_mode THEN <<DebugMsg("Files to hash")>> ELSE <<>>)
            /\ pc' = IF config.single_thread \/ Len(r.val) = 1
                     THEN "st_begin" ELSE "mt_begin"
            /\ UNCHANGED <<error, exit_code>>
    /\ stdin' = <<>>
    /\ UNCHANGED <<rev, args, config, idx, cur, jobs, progress_vars, stdout,
                   stdout_lock, pending, had_error, io_ops, disk, call>>

\* core/worker.rs worker_func after the mode returned
WorkerEnd ==
    /\ pc = "worker_end" /\ rev = "modular"
    /\ exit_code' = IF had_error THEN 1 ELSE 0
    /\ pc' = "exited"
    /\ UNCHANGED <<input_vars, config, paths, idx, cur, jobs, progress_vars,
                   output_vars, had_error, error, io_ops, disk, hash_calls, call>>

\* file_hashes_st with a loop that starts at the second path
FileHashesStBegin_second ==
    /\ pc = "st_begin" /\ rev = "modular"
    /\ stderr' = stderr \o ModeMsgs("Single-threaded mode")
    /\ coordinator' = ~config.no_progress
    /\ had_error' = FALSE
    /\ idx' = IF Len(paths) > 1 THEN 2 ELSE 1
    /\ pc' = IF ~config.no_progress THEN "st_spinner" ELSE "st_hash"
    /\ UNCHANGED <<input_vars, config, paths, cur, jobs, overall, spinners,
                   helper, signal, active_threads, stdout, stdout_lock, pending,
                   error, exit_code, io_ops, disk, hash_calls, call>>

\* core/worker.rs file_hashes_st before the loop
FileHashesStBegin ==
    /\ pc = "st_begin" /\ rev = "modular"
    /\ stderr' = stderr \o ModeMsgs("Single-threaded mode")
    /\ coordinator' = ~config.no_progress
    /\ had_error' = FALSE
    /\ idx' = 1
    /\ pc' = IF ~config.no_progress THEN "st_spinner" ELSE "st_hash"
    /\ UNCHANGED <<input_vars, config, paths, cur, jobs, overall, spinners,
                   helper, signal, active_threads, stdout, stdout_lock, pending,
                   error, exit_code, io_ops, disk, hash_calls, call>>

\* hash_with_progress: coordinator.map(|coord| coord.create_spinner(pathstr))
StCreateSpinner ==
    /\ pc = "st_spinner" /\ rev = "modular"
    /\ spinners' = spinners \cup {idx}
    /\ pc' = "st_hash"
    /\ UNCHANGED <<input_vars, config, paths, idx, cur, jobs, coordinator, overall,
                   helper, signal, active_threads, output_vars, had_error, error,
                   exit_code, io_ops, disk, hash_calls, call>>

\* hash_with_progress: call_hasher, and the timing message when no spinner
\* is left to clear
StCallHasher ==
    /\ pc = "st_hash" /\ rev = "modular"
    /\ LET r == call_hasher(config.algorithm, config.encoding, paths[idx]) IN
       /\ cur' = r.res
       /\ io_ops' = io_ops + Len(r.io)
       /\ disk' = FileOps(disk, paths[idx], r.io)
    /\ hash_calls' = [hash_calls EXCEPT ![idx] = @ + 1]
    /\ IF idx \in spinners
       THEN /\ pc' = "st_clear"
            /\ stderr' = stderr
       ELSE /\ pc' = "st_report"
            /\ \E long \in Longs : stderr' = stderr \o TimingMsgs(long)
    /\ UNCHANGED <<input_vars, config, paths, idx, jobs, progress_vars, stdout,
                   stdout_lock, pending, had_error, error, exit_code, call>>

\* hash_with_progress: pb.finish_and_clear(), then the timing message
StFinishAndClear ==
    /\ pc = "st_clear" /\ rev = "modular"
    /\ spinners' = spinners \ {idx}
    /\ \E long \in Longs : stderr' = stderr \o TimingMsgs(long)
    /\ pc' = "st_report"
    /\ UNCHANGED <<input_vars, config, paths, idx, cur, jobs, coordinator, overall,
                   helper, signal, active_threads, stdout, stdout_lock, pending,
                   had_error, error, exit_code, io_ops, disk, hash_calls, call>>

\* file_hashes_st with a loop that ends at the first file error
StReport_abort ==
    /\ pc = "st_report" /\ rev = "modular"
    /\ IF cur.ok
       THEN /\ stdout' = stdout \o Concat(println(ResultLine(config, cur.val, paths[idx])))
            /\ UNCHANGED <<stderr, had_error>>
       ELSE /\ stderr' = Append(stderr, FileErrorMsg(paths[idx], cur.err))
            /\ had_error' = TRUE
            /\ stdout' = stdout
    /\ cur' = NoResult
    /\ idx' = idx + 1
    /\ pc' = IF idx + 1 > Len(paths) \/ ~cur.ok THEN "worker_end"
             ELSE IF coordinator THEN "st_spinner" ELSE "st_hash"
    /\ UNCHANGED <<input_vars, config, paths, jobs, progress_vars, stdout_lock,
                   pending, error, exit_code, io_ops, disk, hash_calls, call>>

\* file_hashes_st: the match on the result, and the step of the loop
StReport ==
    /\ pc = "st_report" /\ rev = "modular"
    /\ IF cur.ok
       THEN /\ stdout' = stdout \o Concat(println(ResultLine(config, cur.val, paths[idx])))
            /\ UNCHANGED <<stderr, had_error>>
       ELSE /\ stderr' = Append(stderr, FileErrorMsg(paths[idx], cur.err))
            /\ had_error' = TRUE
            /\ stdout' = stdout
    /\ cur' = NoResult
    /\ idx' = idx + 1
    /\ pc' = IF idx + 1 > Len(paths) THEN "worker_end"
             ELSE IF coordinator THEN "st_spinner" ELSE "st_hash"
    /\ UNCHANGED <<input_vars, config, paths, jobs, progress_vars, stdout_lock,
                   pending, error, exit_code, io_ops, disk, hash_calls, call>>

\* ProgressCoordinator::create_overall_progress(len): the aggregate bar of a
\* batch, or None
create_overall_progress(len) ==
    {[exists |-> TRUE, pos |-> 0, len |-> len, finished |-> FALSE], NoBar}

\* file_hashes_mt handing the coordinator to every worker, bar or no bar
FileHashesMtBegin_always ==
    /\ pc = "mt_begin" /\ rev = "modular"
    /\ stderr' = stderr \o ModeMsgs("Multi-threaded mode")
    /\ coordinator' = ~config.no_progress
    /\ \E bar \in (IF ~config.no_progress
                   THEN create_overall_progress(Len(paths)) ELSE {NoBar}) :
          /\ overall' = bar
          /\ jobs' = [i \in 1..Len(paths) |->
                        NewJob(IF ~config.no_progress THEN "spinner" ELSE "hash")]
    /\ pc' = "mt_map"
    /\ UNCHANGED <<input_vars, config, paths, idx, cur, spinners, helper, signal,
                   active_threads, stdout, stdout_lock, pending, had_error, error,
                   exit_code, io_ops, disk, hash_calls, call>>

\* core/worker.rs file_hashes_mt before the parallel map
FileHashesMtBegin ==
    /\ pc = "mt_begin" /\ rev = "modular"
    /\ stderr' = stderr \o ModeMsgs("Multi-threaded mode")
    /\ coordinator' = ~config.no_progress
    /\ \E bar \in (IF ~config.no_progress
                   THEN create_overall_progress(Len(paths)) ELSE {NoBar}) :
          /\ overall' = bar
          /\ jobs' = [i \in 1..Len(paths) |->
                        NewJob(IF ~bar.exists /\ ~config.no_progress
                               THEN "spinner" ELSE "hash")]
    /\ pc' = "mt_map"
    /\ UNCHANGED <<input_vars, config, paths, idx, cur, spinners, helper, signal,
                   active_threads, stdout, stdout_lock, pending, had_error, error,
                   exit_code, io_ops, disk, hash_calls, call>>

\* a pool worker in hash_with_progress: create_spinner
MtCreateSpinner(i) ==
    /\ pc = "mt_map" /\ rev = "modular"
    /\ jobs[i].pc = "spinner"
    /\ spinners' = spinners \cup {i}
    /\ jobs' = [jobs EXCEPT ![i].pc = "hash"]
    /\ UNCHANGED <<input_vars, pc, config, paths, idx, cur, coordinator, overall,
                   helper, signal, active_threads, output_vars, had_error, error,
                   exit_code, io_ops, disk, hash_calls, call>>

\* where a pool worker goes when hash_with_progress has returned
AfterHash == IF overall.exists THEN "inc" ELSE "collected"

\* a pool worker that reads the path to hash from a place the workers
\* share: it hashes the file of a worker that has not finished, if any
MtCallHasher_shared(i) ==
    /\ pc = "mt_map" /\ rev = "modular"
    /\ jobs[i].pc = "hash"
    /\ LET others == {j \in DOMAIN jobs : j # i /\ jobs[j].res = NoResult}
           p == IF others = {} THEN paths[i] ELSE paths[CHOOSE j \in others : TRUE]
           r == call_hasher(config.algorithm, config.encoding, p) IN
       /\ io_ops' = io_ops + Len(r.io)
       /\ disk' = FileOps(disk, p, r.io)
       /\ jobs' = [jobs EXCEPT ![i].res = r.res,
                               ![i].pc = IF i \in spinners THEN "clear" ELSE AfterHash]
    /\ hash_calls' = [hash_calls EXCEPT ![i] = @ + 1]
    /\ IF i \in spinners
       THEN stderr' = stderr
       ELSE \E long \in Longs : stderr' = stderr \o TimingMsgs(long)
    /\ UNCHANGED <<input_vars, pc, config, paths, idx, cur, progress_vars, stdout,
                   stdout_lock, pending, had_error, error, exit_code, call>>

\* a pool worker in hash_with_progress: call_hasher
MtCallHasher(i) ==
    /\ pc = "mt_map" /\ rev = "modular"
    /\ jobs[i].pc = "hash"
    /\ LET r == call_hasher(config.algorithm, config.encoding, paths[i]) IN
       /\ io_ops' = io_ops + Len(r.io)
       /\ disk' = FileOps(disk, paths[i], r.io)
       /\ jobs' = [jobs EXCEPT ![i].res = r.res,
                               ![i].pc = IF i \in spinners THEN "clear" ELSE AfterHash]
    /\ hash_calls' = [hash_calls EXCEPT ![i] = @ + 1]
    /\ IF i \in spinners
       THEN stderr' = stderr
       ELSE \E long \in Longs : stderr' = stderr \o TimingMsgs(long)
    /\ UNCHANGED <<input_vars, pc, config, paths, idx, cur, progress_vars, stdout,
                   stdout_lock, pending, had_error, error, exit_code, call>>

\* a pool worker in hash_with_progress: pb.finish_and_clear()
MtFinishAndClear(i) ==
    /\ pc = "mt_map" /\ rev = "modular"
    /\ jobs[i].pc = "clear"
    /\ spinners' = spinners \ {i}
    /\ \E long \in Longs : stderr' = stderr \o TimingMsgs(long)
    /\ jobs' = [jobs EXCEPT ![i].pc = AfterHash]
    /\ UNCHANGED <<input_vars, pc, config, paths, idx, cur, coordinator, overall,
                   helper, signal, active_threads, stdout, stdout_lock, pending,
                   had_error, error, exit_code, io_ops, disk, hash_calls, call>>

\* a pool worker that advances the bar for a file that was hashed, and not
\* for a file that failed
MtInc_ok_only(i) ==
    /\ pc = "mt_map" /\ rev = "modular"
    /\ jobs[i].pc = "inc"
    /\ overall' = IF jobs[i].res.ok THEN [overall EXCEPT !.pos = @ + 1] ELSE overall
    /\ jobs' = [jobs EXCEPT ![i].pc = "collected"]
    /\ UNCHANGED <<input_vars, pc, config, paths, idx, cur, coordinator, spinners,
                   helper, signal, active_threads, output_vars, had_error, error,
                   exit_code, io_ops, disk, hash_calls, call>>

\* a pool worker: pb.inc(1), then the pair (pathstr, file_hash) is its result
MtInc(i) ==
    /\ pc = "mt_map" /\ rev = "modular"
    /\ jobs[i].pc = "inc"
    /\ overall' = [overall EXCEPT !.pos = @ + 1]
    /\ jobs' = [jobs EXCEPT ![i].pc = "collected"]
    /\ UNCHANGED <<input_vars, pc, config, paths, idx, cur, coordinator, spinners,
                   helper, signal, active_threads, output_vars, had_error, error,
                   exit_code, io_ops, disk, hash_calls, call>>

\* file_hashes_mt with a print loop that starts at the first collected result
MtCollect_any ==
    /\ pc = "mt_map" /\ rev = "modular"
    /\ \E i \in DOMAIN jobs : jobs[i].pc = "collected"
    /\ overall' = IF overall.exists THEN [overall EXCEPT !.finished = TRUE] ELSE overall
    /\ had_error' = FALSE
    /\ idx' = 1
    /\ pc' = "mt_print"
    /\ UNCHANGED <<input_vars, config, paths, cur, jobs, coordinator, spinners,
                   helper, signal, active_threads, output_vars, error, exit_code,
                   io_ops, disk, hash_calls, call>>

\* file_hashes_mt whose collect() returns only if no file failed
MtCollect_all_ok ==
    /\ pc = "mt_map" /\ rev = "modular"
    /\ \A i \in DOMAIN jobs : jobs[i].pc = "collected" /\ jobs[i].res.ok
    /\ overall' = IF overall.exists THEN [overall EXCEPT !.finished = TRUE] ELSE overall
    /\ had_error' = FALSE
    /\ idx' = 1
    /\ pc' = "mt_print"
    /\ UNCHANGED <<input_vars, config, paths, cur, jobs, coordinator, spinners,
                   helper, signal, active_threads, output_vars, error, exit_code,
                   io_ops, disk, hash_calls, call>>

\* file_hashes_mt: collect() returns when every worker is done; the bar is
\* finished and the print loop starts
MtCollect ==
    /\ pc = "mt_map" /\ rev = "modular"
    /\ \A i \in DOMAIN jobs : jobs[i].pc = "collected"
    /\ overall' = IF overall.exists THEN [overall EXCEPT !.finished = TRUE] ELSE overall
    /\ had_error' = FALSE
    /\ idx' = 1
    /\ pc' = "mt_print"
    /\ UNCHANGED <<input_vars, config, paths, cur, jobs, coordinator, spinners,
                   helper, signal, active_threads, output_vars, error, exit_code,
                   io_ops, disk, hash_calls, call>>

\* file_hashes_mt printing the collected results last to first
MtReport_reversed ==
    /\ pc = "mt_print" /\ rev = "modular"
    /\ LET k == Len(paths) + 1 - idx
           file_hash == jobs[k].res IN
       IF file_hash.ok
       THEN /\ stdout' = stdout \o Concat(println(ResultLine(config, file_hash.val, paths[k])))
            /\ UNCHANGED <<stderr, had_error>>
       ELSE /\ stderr' = Append(stderr, FileErrorMsg(paths[k], file_hash.err))
            /\ had_error' = TRUE
            /\ stdout' = stdout
    /\ idx' = idx + 1
    /\ pc' = IF idx + 1 > Len(paths) THEN "worker_end" ELSE "mt_print"
    /\ UNCHANGED <<input_vars, config, paths, cur, jobs, progress_vars, stdout_lock,
                   pending, error, exit_code, io_ops, disk, hash_calls, call>>

\* file_hashes_mt: one turn of the loop over the collected results
MtReport ==
    /\ pc = "mt_print" /\ rev = "modular"
    /\ LET file_hash == jobs[idx].res IN
       IF file_hash.ok
       THEN /\ stdout' = stdout \o Concat(println(ResultLine(config, file_hash.val, paths[idx])))
            /\ UNCHANGED <<stderr, had_error>>
       ELSE /\ stderr' = Append(stderr, FileErrorMsg(paths[idx], file_hash.err))
            /\ had_error' = TRUE
            /\ stdout' = stdout
    /\ idx' = idx + 1
    /\ pc' = IF idx + 1 > Len(paths) THEN "worker_end" ELSE "mt_print"
    /\ UNCHANGED <<input_vars, config, paths, cur, jobs, progress_vars, stdout_lock,
                   pending, error, exit_code, io_ops, disk, hash_calls, call>>

(***************************************************************************)
(* Monolithic revision: main.rs with progress.rs.                          *)
(***************************************************************************)
\* main.rs worker_func: process_command_line(pargs)?
MainProcessCommandLine ==
    /\ pc = "start" /\ rev = "monolith"
    /\ LET r == main_process_command_line(args) IN
       IF r.ok
       THEN /\ config' = r.val
            /\ pc' = "worker"
            /\ error' = error
       ELSE /\ error' = r.err
            /\ pc' = "main_err"
            /\ config' = config
    /\ UNCHANGED <<input_vars, paths, idx, cur, jobs, progress_vars, output_vars,
                   had_error, exit_code, io_ops, disk, hash_calls, call>>

\* main.rs main on an Err of worker_func: show_help(true) and println!() on
\* standard output; the returned Err is printed on standard error
MainMainErr ==
    /\ pc = "main_err" /\ rev = "monolith"
    /\ stdout' = stdout \o HelpLong \o <<NL>>
    /\ stderr' = Append(stderr, <<"error", error>>)
    /\ exit_code' = 1
    /\ pc' = "exited"
    /\ UNCHANGED <<input_vars, config, paths, idx, cur, jobs, progress_vars,
                   stdout_lock, pending, had_error, error, io_ops, disk, hash_calls, call>>

\* main.rs worker_func from show_initial_info to the choice of the mode
MainWorkerFunc ==
    /\ pc = "worker" /\ rev = "monolith"
    /\ LET info == IF config.debug_mode
                   THEN <<DebugMsg("Config"), DebugMsg("Paths")>> ELSE <<>>
           help == IF config.debug_mode THEN HelpShort ELSE <<>>
           r == main_get_required_filenames(config, stdin) IN
       /\ stdout' = stdout \o help
       /\ IF ~r.ok
          THEN /\ error' = r.err
               /\ pc' = "main_err"
               /\ stderr' = stderr \o info \o StdinDiagnostics(config, stdin)
               /\ UNCHANGED <<paths, hash_calls, exit_code>>
          ELSE IF r.val = <<>>
          THEN /\ stderr' = stderr \o info \o StdinDiagnostics(config, stdin) \o
                            (IF config.debug_mode THEN <<DebugMsg("No files found")>> ELSE <<>>)
               /\ exit_code' = 0
               /\ pc' = "exited"
               /\ UNCHANGED <<paths, hash_calls, error>>
          ELSE /\ paths' = r.val
               /\ hash_calls' = [i \in 1..Len(r.val) |-> 0]
               /\ stderr' = stderr \o info \o StdinDiagnostics(config, stdin) \o
                            (IF config.debug_mode THEN <<DebugMsg("Files to hash")>> ELSE <<>>)
               /\ pc' = IF config.single_thread \/ Len(r.val) = 1
                        THEN "st_begin" ELSE "mt_begin"
               /\ UNCHANGED <<error, exit_code>>
    /\ stdin' = <<>>
    /\ UNCHANGED <<rev, args, config, idx, cur, jobs, progress_vars, stdout_lock,
                   pending, had_error, io_ops, disk, call>>

\* main.rs worker_func: Ok(()) once the mode returned
MainWorkerEnd ==
    /\ pc = "worker_end" /\ rev = "monolith"
    /\ exit_code' = 0
    /\ pc' = "exited"
    /\ UNCHANGED <<input_vars, config, paths, idx, cur, jobs, progress_vars,
                   output_vars, had_error, error, io_ops, disk, hash_calls, call>>

\* main.rs file_hashes_st before the loop
MainFileHashesStBegin ==
    /\ pc = "st_begin" /\ rev = "monolith"
    /\ stderr' = stderr \o ModeMsgs("Single-threaded mode")
    /\ idx' = 1
    /\ pc' = "st_progress"
    /\ UNCHANGED <<input_vars, config, paths, cur, jobs, progress_vars, stdout,
                   stdout_lock, pending, had_error, error, exit_code, io_ops, disk,
                   hash_calls, call>>

\* progress.rs ProgressManager::create_file_progress, called by
\* hash_with_progress: the helper thread is spawned unless debug mode is
\* on or the ceiling of helper threads is reached
MainCreateFileProgress ==
    /\ pc = "st_progress" /\ rev = "monolith"
    /\ IF ~config.debug_mode /\ active_threads < MAX_PROGRESS_THREADS
       THEN /\ active_threads' = active_threads + 1
            /\ helper' = "waiting"
       ELSE UNCHANGED <<active_threads, helper>>
    /\ pc' = "st_hash"
    /\ UNCHANGED <<input_vars, config, paths, idx, cur, jobs, coordinator, overall,
                   spinners, signal, output_vars, had_error, error, exit_code,
                   io_ops, disk, hash_calls, call>>

\* main.rs hash_with_progress: call_hasher; without a handle the function
\* goes on to its timing message and returns
MainStCallHasher ==
    /\ pc = "st_hash" /\ rev = "monolith"
    /\ LET r == call_hasher(config.algorithm, config.encoding, paths[idx]) IN
       /\ cur' = r.res
       /\ io_ops' = io_ops + Len(r.io)
       /\ disk' = FileOps(disk, paths[idx], r.io)
    /\ hash_calls' = [hash_calls EXCEPT ![idx] = @ + 1]
    /\ IF helper # "none"
       THEN /\ pc' = "st_finish"
            /\ stderr' = stderr
       ELSE /\ pc' = "st_report"
            /\ \E long \in Longs : stderr' = stderr \o TimingMsgs(long)
    /\ UNCHANGED <<input_vars, config, paths, idx, jobs, progress_vars, stdout,
                   stdout_lock, pending, had_error, error, exit_code, call>>

\* progress.rs ProgressHandle::finish: tx.send(())
HandleFinishSend ==
    /\ pc = "st_finish" /\ rev = "monolith"
    /\ signal' = TRUE
    /\ pc' = "st_join"
    /\ UNCHANGED <<input_vars, config, paths, idx, cur, jobs, coordinator, overall,
                   spinners, helper, active_threads, output_vars, had_error, error,
                   exit_code, io_ops, disk, hash_calls, call>>

\* progress.rs ProgressHandle::finish: handle.join() returns once the helper
\* thread has ended; hash_with_progress then returns
HandleFinishJoin ==
    /\ pc = "st_join" /\ rev = "monolith"
    /\ helper = "done"
    /\ helper' = "none"
    /\ \E long \in Longs : stderr' = stderr \o TimingMsgs(long)
    /\ pc' = "st_report"
    /\ UNCHANGED <<input_vars, config, paths, idx, cur, jobs, coordinator, overall,
                   spinners, signal, active_threads, stdout, stdout_lock, pending,
                   had_error, error, exit_code, io_ops, disk, hash_calls, call>>

\* helper thread: recv_timeout returns Ok(()), the operation completed
\* before the threshold; the counter is decremented
HelperRecv ==
    /\ helper = "waiting" /\ signal
    /\ signal' = FALSE
    /\ helper' = "done"
    /\ active_threads' = active_threads - 1
    /\ UNCHANGED <<input_vars, pc, config, paths, idx, cur, jobs, coordinator,
                   overall, spinners, output_vars, had_error, error, exit_code,
                   io_ops, disk, hash_calls, call>>

\* a helper thread whose recv_timeout reports Timeout although the signal is
\* in the channel
HelperTimeout_signalled ==
    /\ helper = "waiting"
    /\ spinners' = spinners \cup {idx}
    /\ helper' = "spinning"
    /\ UNCHANGED <<input_vars, pc, config, paths, idx, cur, jobs, coordinator,
                   overall, signal, active_threads, output_vars, had_error, error,
                   exit_code, io_ops, disk, hash_calls, call>>

\* helper thread: recv_timeout returns Timeout, the spinner is shown
HelperTimeout ==
    /\ helper = "waiting" /\ ~signal
    /\ spinners' = spinners \cup {idx}
    /\ helper' = "spinning"
    /\ UNCHANGED <<input_vars, pc, config, paths, idx, cur, jobs, coordinator,
                   overall, signal, active_threads, output_vars, had_error, error,
                   exit_code, io_ops, disk, hash_calls, call>>

\* a helper thread that ends on the signal and leaves its spinner on screen
HelperRecvSpinning_noclear ==
    /\ helper = "spinning" /\ signal
    /\ signal' = FALSE
    /\ helper' = "done"
    /\ active_threads' = active_threads - 1
    /\ UNCHANGED <<input_vars, pc, config, paths, idx, cur, jobs, coordinator,
                   overall, spinners, output_vars, had_error, error, exit_code,
                   io_ops, disk, hash_calls, call>>

\* helper thread: rx.recv() returns, the spinner is cleared and the counter
\* decremented
HelperRecvSpinning ==
    /\ helper = "spinning" /\ signal
    /\ signal' = FALSE
    /\ spinners' = spinners \ {idx}
    /\ helper' = "done"
    /\ active_threads' = active_threads - 1
    /\ UNCHANGED <<input_vars, pc, config, paths, idx, cur, jobs, coordinator,
                   overall, output_vars, had_error, error, exit_code, io_ops, disk,
                   hash_calls, call>>

\* main.rs file_hashes_st: the match on the result, and the step of the loop
MainStReport ==
    /\ pc = "st_report" /\ rev = "monolith"
    /\ IF cur.ok
       THEN /\ stdout' = stdout \o Concat(println(ResultLine(config, cur.val, paths[idx])))
            /\ stderr' = stderr
       ELSE /\ stderr' = Append(stderr, FileErrorMsg(paths[idx], cur.err))
            /\ stdout' = stdout
    /\ cur' = NoResult
    /\ idx' = idx + 1
    /\ pc' = IF idx + 1 > Len(paths) THEN "worker_end" ELSE "st_progress"
    /\ UNCHANGED <<input_vars, config, paths, jobs, progress_vars, stdout_lock,
                   pending, had_error, error, exit_code, io_ops, disk, hash_calls, call>>

\* progress.rs ProgressManager::create_overall_progress
main_create_overall_progress(file_count, debug_mode) ==
    IF debug_mode \/ file_count < OVERALL_MIN_FILES THEN NoBar
    ELSE [exists |-> TRUE, pos |-> 0, len |-> file_count, finished |-> FALSE]

\* main.rs file_hashes_mt with the last path left out of the parallel loop
MainFileHashesMtBegin_short ==
    /\ pc = "mt_begin" /\ rev = "monolith"
    /\ stderr' = stderr \o ModeMsgs("Multi-threaded mode")
    /\ overall' = main_create_overall_progress(Len(paths), config.debug_mode)
    /\ jobs' = [i \in 1..(Len(paths) - 1) |-> NewJob("hash")]
    /\ pc' = "mt_map"
    /\ UNCHANGED <<input_vars, config, paths, idx, cur, coordinator, spinners,
                   helper, signal, active_threads, stdout, stdout_lock, pending,
                   had_error, error, exit_code, io_ops, disk, hash_calls, call>>

\* main.rs file_hashes_mt before the parallel for_each
MainFileHashesMtBegin ==
    /\ pc = "mt_begin" /\ rev = "monolith"
    /\ stderr' = stderr \o ModeMsgs("Multi-threaded mode")
    /\ overall' = main_create_overall_progress(Len(paths), config.debug_mode)
    /\ jobs' = [i \in 1..Len(paths) |-> NewJob("hash")]
    /\ pc' = "mt_map"
    /\ UNCHANGED <<input_vars, config, paths, idx, cur, coordinator, spinners,
                   helper, signal, active_threads, stdout, stdout_lock, pending,
                   had_error, error, exit_code, io_ops, disk, hash_calls, call>>

\* a pool worker of main.rs file_hashes_mt: call_hasher
MainMtCallHasher(i) ==
    /\ pc = "mt_map" /\ rev = "monolith"
    /\ jobs[i].pc = "hash"
    /\ LET r == call_hasher(config.algorithm, config.encoding, paths[i]) IN
       /\ io_ops' = io_ops + Len(r.io)
       /\ disk' = FileOps(disk, paths[i], r.io)
       /\ jobs' = [jobs EXCEPT ![i].res = r.res, ![i].pc = "inc"]
    /\ hash_calls' = [hash_calls EXCEPT ![i] = @ + 1]
    /\ UNCHANGED <<input_vars, pc, config, paths, idx, cur, progress_vars,
                   output_vars, had_error, error, exit_code, call>>

\* a pool worker of main.rs file_hashes_mt: pb.inc(1) when the overall bar
\* exists, then the timing message
MainMtInc(i) ==
    /\ pc = "mt_map" /\ rev = "monolith"
    /\ jobs[i].pc = "inc"
    /\ overall' = IF overall.exists THEN [overall EXCEPT !.pos = @ + 1] ELSE overall
    /\ \E long \in Longs : stderr' = stderr \o TimingMsgs(long)
    /\ jobs' = [jobs EXCEPT ![i].pc = "print"]
    /\ UNCHANGED <<input_vars, pc, config, paths, idx, cur, coordinator, spinners,
                   helper, signal, active_threads, stdout, stdout_lock, pending,
                   had_error, error, exit_code, io_ops, disk, hash_calls, call>>

\* the write calls worker i has still to make for its result line
CallsLeft(i) ==
    IF jobs[i].pc = "print"
    THEN println(ResultLine(config, jobs[i].res.val, paths[i]))
    ELSE jobs[i].calls

\* a pool worker in println!: a write call takes the stdout lock when it is
\* free and writes its first piece; the lock is kept while pieces remain
StdoutAcquire(i) ==
    /\ pc = "mt_map" /\ rev = "monolith"
    /\ jobs[i].pc \in {"print", "write"}
    /\ jobs[i].res.ok
    /\ stdout_lock = 0
    /\ LET calls == CallsLeft(i)
           pieces == Head(calls) IN
       /\ stdout' = Append(stdout, Head(pieces))
       /\ pending' = Tail(pieces)
       /\ stdout_lock' = IF Tail(pieces) = <<>> THEN 0 ELSE i
       /\ jobs' = [jobs EXCEPT ![i].calls = Tail(calls),
                               ![i].pc = IF Tail(pieces) = <<>> /\ Tail(calls) = <<>>
                                         THEN "done" ELSE "write"]
    /\ UNCHANGED <<input_vars, pc, config, paths, idx, cur, progress_vars, stderr,
                   had_error, error, exit_code, io_ops, disk, hash_calls, call>>

\* a pool worker in println!: the lock holder writes its next piece, and
\* releases the lock with the last one
StdoutWrite(i) ==
    /\ pc = "mt_map" /\ rev = "monolith"
    /\ stdout_lock = i
    /\ stdout' = Append(stdout, Head(pending))
    /\ pending' = Tail(pending)
    /\ stdout_lock' = IF Tail(pending) = <<>> THEN 0 ELSE i
    /\ jobs' = [jobs EXCEPT ![i].pc = IF Tail(pending) = <<>> /\ jobs[i].calls = <<>>
                                      THEN "done" ELSE "write"]
    /\ UNCHANGED <<input_vars, pc, config, paths, idx, cur, progress_vars, stderr,
                   had_error, error, exit_code, io_ops, disk, hash_calls, call>>

\* a pool worker of main.rs file_hashes_mt: the Err arm, eprintln!
MainMtReportErr(i) ==
    /\ pc = "mt_map" /\ rev = "monolith"
    /\ jobs[i].pc = "print"
    /\ ~jobs[i].res.ok
    /\ stderr' = Append(stderr, FileErrorMsg(paths[i], jobs[i].res.err))
    /\ jobs' = [jobs EXCEPT ![i].pc = "done"]
    /\ UNCHANGED <<input_vars, pc, config, paths, idx, cur, progress_vars, stdout,
                   stdout_lock, pending, had_error, error, exit_code, io_ops, disk,
                   hash_calls, call>>

\* main.rs file_hashes_mt: for_each returns when every worker is done; the
\* bar, if any, is finished
MainMtJoin ==
    /\ pc = "mt_map" /\ rev = "monolith"
    /\ \A i \in DOMAIN jobs : jobs[i].pc = "done"
    /\ overall' = IF overall.exists THEN [overall EXCEPT !.finished = TRUE] ELSE overall
    /\ pc' = "worker_end"
    /\ UNCHANGED <<input_vars, config, paths, idx, cur, jobs, coordinator, spinners,
                   helper, signal, active_threads, output_vars, had_error, error,
                   exit_code, io_ops, disk, hash_calls, call>>

(***************************************************************************)
(* The run of the program.                                                 *)
(***************************************************************************)
Next ==
    \/ ProcessCommandLine
    \/ MainErr
    \/ WorkerFunc
    \/ WorkerEnd
    \/ FileHashesStBegin
    \/ StCreateSpinner
    \/ StCallHasher
    \/ StFinishAndClear
    \/ StReport
    \/ FileHashesMtBegin
    \/ \E i \in DOMAIN jobs : MtCreateSpinner(i)
    \/ \E i \in DOMAIN jobs : MtCallHasher(i)
    \/ \E i \in DOMAIN jobs : MtFinishAndClear(i)
    \/ \E i \in DOMAIN jobs : MtInc(i)
    \/ MtCollect
    \/ MtReport
    \/ MainProcessCommandLine
    \/ MainMainErr
    \/ MainWorkerFunc
    \/ MainWorkerEnd
    \/ MainFileHashesStBegin
    \/ MainCreateFileProgress
    \/ MainStCallHasher
    \/ HandleFinishSend
    \/ HandleFinishJoin
    \/ HelperRecv
    \/ HelperTimeout
    \/ HelperRecvSpinning
    \/ MainStReport
    \/ MainFileHashesMtBegin
    \/ \E i \in DOMAIN jobs : MainMtCallHasher(i)
    \/ \E i \in DOMAIN jobs : MainMtInc(i)
    \/ \E i \in DOMAIN jobs : StdoutAcquire(i)
    \/ \E i \in DOMAIN jobs : StdoutWrite(i)
    \/ \E i \in DOMAIN jobs : MainMtReportErr(i)
    \/ MainMtJoin

Spec == Init /\ [][Next]_vars

(***************************************************************************)
(* Direct calls of call_hasher, as a caller other than the coordinator     *)
(* makes them: over every algorithm, every encoding and every kind of      *)
(* path.  The coordinator is idle in these runs.                           *)
(***************************************************************************)
CallHasherInputs ==
    [fn : {"call_hasher"}, algo : HashAlgorithm, encoding : OutputEncoding,
     path : PathNames, done : {FALSE}, out : {NoResult}, io : {<<>>}]

InitFn ==
    /\ call \in CallHasherInputs
    /\ rev = "modular"
    /\ args = NoArgs
    /\ stdin = <<>>
    /\ pc = "unit"
    /\ config = NoConfig
    /\ paths = <<>>
    /\ idx = 0
    /\ cur = NoResult
    /\ jobs = <<>>
    /\ coordinator = FALSE
    /\ overall = NoBar
    /\ spinners = {}
    /\ helper = "none"
    /\ signal = FALSE
    /\ active_threads = 0
    /\ stdout = <<>>
    /\ stdout_lock = 0
    /\ pending = <<>>
    /\ stderr = <<>>
    /\ had_error = FALSE
    /\ error = NONE
    /\ exit_code = -1
    /\ io_ops = 0
    /\ disk = FileSystem
    /\ hash_calls = <<>>

\* the caller invokes call_hasher(algo, encoding, path) and keeps what it
\* returned and the file operations it performed
UnitCallHasher ==
    /\ pc = "unit" /\ call.fn = "call_hasher" /\ ~call.done
    /\ LET r == call_hasher(call.algo, call.encoding, call.path) IN
       /\ call' = [call EXCEPT !.done = TRUE, !.out = r.res, !.io = r.io]
       /\ io_ops' = io_ops + Len(r.io)
       /\ disk' = FileOps(disk, call.path, r.io)
    /\ UNCHANGED <<input_vars, pc, config, paths, idx, cur, jobs, progress_vars,
                   output_vars, had_error, error, exit_code, hash_calls>>

NextFn == UnitCallHasher

SpecFn == InitFn /\ [][NextFn]_vars

(***************************************************************************)
(* What an observer of a run sees.                                         *)
(***************************************************************************)
\* the files whose hash is on standard output, in stream order
RECURSIVE OutFiles(_)
OutFiles(s) ==
    IF s = <<>> THEN <<>>
    ELSE (IF Head(s)[1] = "hash" THEN <<Head(s)[4]>> ELSE <<>>) \o OutFiles(Tail(s))

\* the files with a 'File error' diagnostic on standard error, in stream order
RECURSIVE ErrFiles(_)
ErrFiles(s) ==
    IF s = <<>> THEN <<>>
    ELSE (IF Head(s)[1] = "file_error" THEN <<Head(s)[2]>> ELSE <<>>) \o ErrFiles(Tail(s))

Count(s, x) == Cardinality({i \in DOMAIN s : s[i] = x})

\* number of results emitted so far, on either stream
Reported == Len(OutFiles(stdout)) + Len(ErrFiles(stderr))

\* what the hash attempt of path number i returns
Attempt(i) == call_hasher(config.algorithm, config.encoding, paths[i]).res

\* the paths among the first k whose attempt succeeds (ok) or fails (~ok)
RECURSIVE Sel(_, _)
Sel(k, ok) ==
    IF k = 0 THEN <<>>
    ELSE Sel(k - 1, ok) \o (IF Attempt(k).ok = ok THEN <<paths[k]>> ELSE <<>>)

\* a batch was hashed and the mode function has returned
BatchDone == paths # <<>> /\ pc \in {"worker_end", "exited"}

\* the pieces of standard output split at the newlines; the last element is
\* the line being written
RECURSIVE SplitLines(_, _)
SplitLines(s, line) ==
    IF s = <<>> THEN <<line>>
    ELSE IF Head(s) = NL THEN <<line>> \o SplitLines(Tail(s), <<>>)
    ELSE SplitLines(Tail(s), Append(line, Head(s)))

\* a beginning of a result line "{hash}" or "{hash} {path}"
IsLinePrefix(l) ==
    \/ l = <<>>
    \/ /\ l[1][1] = "hash"
       /\ Len(l) <= (IF config.exclude_fn THEN 1 ELSE 3)
       /\ Len(l) >= 2 => l[2] = SP
       /\ Len(l) >= 3 => l[3] = PathPiece(l[1][4])

IsResultLine(l) ==
    /\ Len(l) = (IF config.exclude_fn THEN 1 ELSE 3)
    /\ IsLinePrefix(l)

\* a line of the usage help, or an empty line
IsTextLine(l) == l = <<>> \/ (Len(l) = 1 /\ l[1][1] = "lit")

\* the command line names an algorithm and an encoding that break the
\* rule (algorithm = CRC32) = (encoding = U32)
PairViolated(a) ==
    LET algo == parse_hash_algorithm(a.algorithm)
        enc == parse_hash_encoding(a.encoding) IN
    /\ algo.ok /\ enc.ok /\ enc.val # NONE
    /\ (algo.val = "CRC32") # (enc.val = "U32")

(***************************************************************************)
(* Properties.                                                             *)
(***************************************************************************)

\* C1: per-file failure isolation.  When file_hashes_st or file_hashes_mt
\* has returned, every path of the list was hashed (once), every path whose
\* attempt succeeds has exactly one line on stdout, every path whose attempt
\* fails has exactly one 'File error' diagnostic on stderr and nothing on
\* stdout, so that lines plus diagnostics number the paths.
C1_FailureIsolation ==
    BatchDone =>
        /\ \A i \in DOMAIN paths : hash_calls[i] = 1
        /\ \A p \in PathNames :
              /\ Count(OutFiles(stdout), p)
                    = Cardinality({i \in DOMAIN paths : paths[i] = p /\ Attempt(i).ok})
              /\ Count(ErrFiles(stderr), p)
                    = Cardinality({i \in DOMAIN paths : paths[i] = p /\ ~Attempt(i).ok})
        /\ Reported = Len(paths)

\* a batch whose first file failed and whose second file was still hashed
\* and printed, in the sequential loop of core/worker.rs
C1_Witness ==
    /\ BatchDone /\ rev = "modular" /\ jobs = <<>>
    /\ paths = <<"u", "a">>
    /\ ErrFiles(stderr) = <<"u">>
    /\ OutFiles(stdout) = <<"a">>

\* C2: the run ends with a non-zero exit status if and only if the hash
\* attempt of at least one file returned an error, and it ends only when
\* every path of the batch has been reported.
C2_FailedIffAnyFileError ==
    (pc = "exited" /\ paths # <<>>) =>
        /\ (exit_code # 0) <=> (\E i \in DOMAIN paths : ~Attempt(i).ok)
        /\ Reported = Len(paths)

\* C3: in sequential mode the results emitted so far are those of the first
\* k paths, in input order on each stream, each of these paths was hashed
\* once, and beyond path k + 1 no path has been hashed: the result of path i
\* is out before the hashing of path i + 1 begins.
C3_SequentialOrder ==
    (paths # <<>> /\ jobs = <<>>) =>
        LET k == Reported IN
        /\ k <= Len(paths)
        /\ OutFiles(stdout) = Sel(k, TRUE)
        /\ ErrFiles(stderr) = Sel(k, FALSE)
        /\ \A i \in DOMAIN paths :
              /\ i <= k => hash_calls[i] = 1
              /\ i = k + 1 => hash_calls[i] <= 1
              /\ i > k + 1 => hash_calls[i] = 0

\* the second file has been hashed, after the result of the first was emitted
C3_Witness ==
    /\ jobs = <<>> /\ Len(paths) = 2 /\ pc \in {"st_clear", "st_join", "st_report"}
    /\ Reported = 1
    /\ hash_calls[2] = 1

\* C4: in parallel mode no path is hashed or reported more often than the
\* list names it, under any interleaving of the workers; when the batch is
\* complete every path was hashed once and the multiset of reported paths
\* (stdout lines and stderr diagnostics) is the multiset of the input list.
C4_ParallelExactlyOnce ==
    jobs # <<>> =>
        LET rep == OutFiles(stdout) \o ErrFiles(stderr) IN
        /\ \A i \in DOMAIN paths : hash_calls[i] <= 1
        /\ \A p \in PathNames : Count(rep, p) <= Count(paths, p)
        /\ BatchDone =>
              /\ \A i \in DOMAIN paths : hash_calls[i] = 1
              /\ \A p \in PathNames : Count(rep, p) = Count(paths, p)

\* a complete parallel batch that names the same file twice: it is hashed
\* and reported twice, once per position
C4_Witness ==
    /\ BatchDone /\ jobs # <<>>
    /\ Len(paths) = 2 /\ paths[1] = paths[2]
    /\ Reported = 2

\* parallel mode: worker i holds the result of its file, not yet emitted
ResultReady(i) ==
    \/ rev = "monolith" /\ pc = "mt_map" /\ jobs[i].pc = "print"
    \/ /\ rev = "modular" /\ jobs[i].pc = "collected"
       /\ pc = "mt_map" \/ (pc = "mt_print" /\ idx <= i)

\* the step that emits the result of file i
Emit(i) ==
    \/ StdoutAcquire(i)
    \/ MainMtReportErr(i)
    \/ MtReport /\ idx = i

\* another worker is in the middle of writing its line
LineInProgress(i) == stdout_lock # 0 /\ stdout_lock # i

\* C5: in parallel mode a file whose hashing is complete has its result
\* emitted without waiting for any other file: whenever a result is ready,
\* the step that emits it can be taken at once (a line another worker is
\* writing at that instant aside).
C5_EmitsAtOnce ==
    \A i \in DOMAIN jobs : ResultReady(i) => (ENABLED Emit(i) \/ LineInProgress(i))

\* C5 as the code has it: in main.rs a ready result can be emitted at once;
\* in core/worker.rs nothing of the batch is emitted while the workers run,
\* and a result is emitted only when every file of the batch has been
\* hashed and the results before it in input order are out.
C5_EmitsAfterCollect ==
    /\ rev = "monolith" => C5_EmitsAtOnce
    /\ (rev = "modular" /\ jobs # <<>>) =>
          /\ pc = "mt_map" => Reported = 0
          /\ Reported > 0 => \A j \in DOMAIN jobs : jobs[j].pc = "collected"
          /\ \A i \in DOMAIN jobs :
                (ResultReady(i) /\ ENABLED Emit(i)) => (pc = "mt_print" /\ Reported = i - 1)

\* core/worker.rs: the first file's result is ready while the second file
\* is still being hashed, and nothing has been emitted
C5_Witness ==
    /\ rev = "modular" /\ pc = "mt_map" /\ Len(paths) = 2
    /\ jobs[1].pc = "collected" /\ jobs[2].pc = "hash"
    /\ Reported = 0

\* C6: in parallel mode standard output is at every instant a sequence of
\* complete lines, followed at most by the beginning of the one line that
\* the holder of the stdout lock is writing: the pieces of two result lines
\* are never mixed.
C6_LinesAtomic ==
    jobs # <<>> =>
        LET ls == SplitLines(stdout, <<>>)
            last == ls[Len(ls)] IN
        /\ \A k \in 1..(Len(ls) - 1) : IsResultLine(ls[k]) \/ IsTextLine(ls[k])
        /\ IsLinePrefix(last)
        /\ last # <<>> => stdout_lock # 0

\* main.rs: worker 1 is in the middle of its line while worker 2 holds a
\* result line to print
C6_Witness ==
    /\ rev = "monolith" /\ pc = "mt_map" /\ Len(paths) = 2
    /\ stdout_lock = 1 /\ pending # <<>>
    /\ jobs[2].pc = "print" /\ jobs[2].res.ok

\* the pair breaks the rule (algorithm = CRC32) = (encoding = U32)
BadPair(algo, encoding) == (algo = "CRC32") # (encoding = "U32")

\* C7: call_hasher called with a pair that breaks the rule returns the
\* pairing error and performs no file operation (no stat, open or read),
\* whatever the path, missing paths included.
C7_PairingBeforeIO ==
    (call.fn = "call_hasher" /\ call.done /\ BadPair(call.algo, call.encoding)) =>
        /\ call.out = Err(PairingError)
        /\ call.io = <<>>
        /\ io_ops = 0

\* a call with MD5 and U32 on a path that does not exist
C7_Witness ==
    /\ call.fn = "call_hasher" /\ call.done
    /\ call.algo = "MD5" /\ call.encoding = "U32" /\ call.path = "m"
    /\ call.out = Err(PairingError)

\* C8: on an existing readable file, for each of the 13 algorithms and each
\* encoding, call_hasher returns Ok exactly when
\* (algorithm = CRC32) = (encoding = U32).
C8_OkIffPaired ==
    (call.fn = "call_hasher" /\ call.done /\ KindOf(call.path) = "file") =>
        (call.out.ok <=> ~BadPair(call.algo, call.encoding))

\* CRC32 with U32 on a file longer than the buffer: Ok, after streaming
C8_Witness ==
    /\ call.fn = "call_hasher" /\ call.done
    /\ call.algo = "CRC32" /\ call.encoding = "U32" /\ call.path = "big"
    /\ call.out.ok
    /\ Len(call.io) > 2

\* C9: a command line whose algorithm and encoding break the rule, in
\* either direction, is rejected by process_command_line with the pairing
\* error: no path is resolved, no file is hashed, nothing is written to
\* stdout and the run does not end with success.
C9_ConfigRejectsBadPair ==
    (PairViolated(args) /\ pc # "start") =>
        /\ error = PairingError
        /\ config = NoConfig
        /\ paths = <<>> /\ hash_calls = <<>> /\ io_ops = 0
        /\ stdout = <<>>
        /\ exit_code \in {-1, 1}

ZEROED == -1
UNINIT == -2

MaxShortReads == 2

FileSizes == {0, 1, 32767, 32768, 32769, 40000, 65536, 65537}

Run(len, src) == [len |-> len, src |-> src]

\* the bytes of a file of n bytes, first to last
Content(n) == IF n = 0 THEN <<>> ELSE <<Run(n, 0)>>

\* bytes.len()
RECURSIVE ByteLen(_)
ByteLen(bytes) == IF bytes = <<>> THEN 0 ELSE Head(bytes).len + ByteLen(Tail(bytes))

\* &bytes[..n]
RECURSIVE TakeBytes(_, _)
TakeBytes(bytes, n) ==
    IF n = 0 \/ bytes = <<>> THEN <<>>
    ELSE IF Head(bytes).len <= n
    THEN <<Head(bytes)>> \o TakeBytes(Tail(bytes), n - Head(bytes).len)
    ELSE <<Run(n, Head(bytes).src)>>

\* &bytes[n..]
RECURSIVE DropBytes(_, _)
DropBytes(bytes, n) ==
    IF n = 0 \/ bytes = <<>> THEN bytes
    ELSE IF Head(bytes).len <= n
    THEN DropBytes(Tail(bytes), n - Head(bytes).len)
    ELSE <<Run(Head(bytes).len - n,
               IF Head(bytes).src < 0 THEN Head(bytes).src
               ELSE Head(bytes).src + n)>> \o Tail(bytes)

\* two byte strings one after the other; runs that continue each other in
\* the file are one run
RECURSIVE JoinBytes(_, _)
JoinBytes(a, b) ==
    IF b = <<>> THEN a
    ELSE IF a = <<>> THEN JoinBytes(<<Head(b)>>, Tail(b))
    ELSE LET l == a[Len(a)]
             h == Head(b)
         IN  IF l.src >= 0 /\ h.src = l.src + l.len
             THEN JoinBytes(SubSeq(a, 1, Len(a) - 1) \o <<Run(l.len + h.len, l.src)>>,
                         Tail(b))
             ELSE JoinBytes(a \o <<h>>, Tail(b))

\* digest_impl.rs build_heap_buffer: vec![T::default(); len]
build_heap_buffer(len) == IF len = 0 THEN <<>> ELSE <<Run(len, ZEROED)>>

\* hasher.rs build_heap_buffer_uninitialized: set_len over fresh capacity
build_heap_buffer_uninitialized(len) == IF len = 0 THEN <<>> ELSE <<Run(len, UNINIT)>>

\* Read::read(&mut buffer) that returned n: the n bytes of the file at the
\* read position are at the front of the buffer, the rest of the buffer is
\* what it was
file_read(buffer, off, n) ==
    IF n = 0 THEN buffer ELSE <<Run(n, off)>> \o DropBytes(buffer, n)

\* the numbers of bytes one read() may return with rem bytes left in the
\* file and a buffer of buflen bytes: all it can take, or fewer (at least
\* one while bytes are left); short says whether a short read is taken
ReadSizes(rem, buflen, short) ==
    LET full == IF rem < buflen THEN rem ELSE buflen
    IN  {full} \cup (IF short THEN {n \in {1, full - 1} : n >= 1 /\ n < full} ELSE {})

\* hasher.update(&buffer[..bytes_read]): the slice handed to the hasher
update_slice_whole_buffer(buffer, bytes_read) == buffer

update_slice(buffer, bytes_read) == TakeBytes(buffer, bytes_read)

\* Digest::update
update(fed, data) == JoinBytes(fed, data)

\* digest_impl.rs hash_file: the choice between the two strategies
use_whole_file(filesize) == filesize <= BUFFER_SIZE

\* hasher.rs hash_file: the size of the read buffer
hasher_buffersize(filesize) == IF filesize < BUFFER_SIZE THEN filesize ELSE BUFFER_SIZE

HashFileInputs ==
    [fn : {"hash_file"}, engine : {"digest_impl", "hasher"}, size : FileSizes,
     at : {"begin"}, strategy : {NONE}, buffer : {<<>>}, off : {0}, fed : {<<>>},
     reads : {0}, shorts : {0}, dirty : {FALSE}, done : {FALSE}]

InitChunk ==
    /\ call \in HashFileInputs
    /\ rev = "modular"
    /\ args = NoArgs
    /\ stdin = <<>>
    /\ pc = "unit"
    /\ config = NoConfig
    /\ paths = <<>>
    /\ idx = 0
    /\ cur = NoResult
    /\ jobs = <<>>
    /\ coordinator = FALSE
    /\ overall = NoBar
    /\ spinners = {}
    /\ helper = "none"
    /\ signal = FALSE
    /\ active_threads = 0
    /\ stdout = <<>>
    /\ stdout_lock = 0
    /\ pending = <<>>
    /\ stderr = <<>>
    /\ had_error = FALSE
    /\ error = NONE
    /\ exit_code = -1
    /\ io_ops = 0
    /\ disk = FileSystem
    /\ hash_calls = <<>>

\* the name the file of these calls has in the file system
FileUnderTest == "big"

unit_frame == <<input_vars, pc, config, paths, idx, cur, jobs, progress_vars,
                stdout, stdout_lock, pending, had_error, error, exit_code,
                hash_calls>>

\* digest_impl.rs hash_file, a file of at most BUFFER_SIZE bytes:
\* hash_file_whole reads the file into memory and feeds it in one update
HashFileWhole ==
    /\ pc = "unit" /\ call.fn = "hash_file" /\ call.at = "begin"
    /\ call.engine = "digest_impl" /\ use_whole_file(call.size)
    /\ call' = [call EXCEPT !.strategy = "whole", !.at = "done", !.done = TRUE,
                            !.buffer = Content(call.size),
                            !.fed = update(<<>>, Content(call.size))]
    /\ io_ops' = io_ops + 2
    /\ disk' = FileOps(disk, FileUnderTest, <<"stat", "read_whole">>)
    /\ UNCHANGED <<unit_frame, stderr>>

\* digest_impl.rs hash_file, a larger file: open it and allocate the
\* zeroed buffer of BUFFER_SIZE bytes
HashFileOpen ==
    /\ pc = "unit" /\ call.fn = "hash_file" /\ call.at = "begin"
    /\ call.engine = "digest_impl" /\ ~use_whole_file(call.size)
    /\ call' = [call EXCEPT !.strategy = "stream", !.at = "loop",
                            !.buffer = build_heap_buffer(BUFFER_SIZE)]
    /\ io_ops' = io_ops + 2
    /\ disk' = FileOps(disk, FileUnderTest, <<"stat", "open">>)
    /\ UNCHANGED <<unit_frame, stderr>>

\* hasher.rs hash_file: open the file and allocate the uninitialized buffer
\* of min(file size, BUFFER_SIZE) bytes.  The diagnostic that follows reads
\* the buffer before anything was written to it: what it finds there, and so
\* whether it reports that the buffer is not zeroed, is not determined
HasherHashFileOpen ==
    /\ pc = "unit" /\ call.fn = "hash_file" /\ call.at = "begin"
    /\ call.engine = "hasher"
    /\ \E nonzero \in (IF call.size = 0 THEN {FALSE} ELSE BOOLEAN) :
         /\ call' = [call EXCEPT !.strategy = "stream", !.at = "loop",
                                 !.dirty = nonzero,
                                 !.buffer = build_heap_buffer_uninitialized(
                                                hasher_buffersize(call.size))]
         /\ stderr' = IF nonzero
                      THEN stderr \o <<<<"diagnostic", "Buffer not zeroed">>>>
                      ELSE stderr
    /\ io_ops' = io_ops + 2
    /\ disk' = FileOps(disk, FileUnderTest, <<"stat", "open">>)
    /\ UNCHANGED unit_frame

\* one turn of the loop in which read() returned bytes: they are fed to the
\* hasher.  A read may return fewer bytes than the buffer takes
HashFileRead ==
    /\ pc = "unit" /\ call.fn = "hash_file" /\ call.at = "loop"
    /\ call.off < call.size /\ call.buffer # <<>>
    /\ \E short \in {b \in BOOLEAN : b => call.shorts < MaxShortReads} :
       \E n \in ReadSizes(call.size - call.off, ByteLen(call.buffer), short) :
         LET buf == file_read(call.buffer, call.off, n) IN
         call' = [call EXCEPT !.buffer = buf,
                              !.off = call.off + n,
                              !.reads = call.reads + 1,
                              !.shorts = IF short THEN call.shorts + 1 ELSE call.shorts,
                              !.fed = update(call.fed, update_slice(buf, n))]
    /\ io_ops' = io_ops + 1
    /\ disk' = FileOps(disk, FileUnderTest, <<"read">>)
    /\ UNCHANGED <<unit_frame, stderr>>

\* the turn of the loop in which read() returned 0 (end of file, or a
\* buffer of no bytes): the loop ends and the hasher is finalized
HashFileEof ==
    /\ pc = "unit" /\ call.fn = "hash_file" /\ call.at = "loop"
    /\ call.off = call.size \/ call.buffer = <<>>
    /\ call' = [call EXCEPT !.at = "done", !.done = TRUE,
                            !.reads = call.reads + 1]
    /\ io_ops' = io_ops + 1
    /\ disk' = FileOps(disk, FileUnderTest, <<"read">>)
    /\ UNCHANGED <<unit_frame, stderr>>

NextChunk ==
    \/ HashFileWhole
    \/ HashFileOpen
    \/ HasherHashFileOpen
    \/ HashFileRead
    \/ HashFileEof

SpecChunk == InitChunk /\ [][NextChunk]_vars

\* the digest of the file hashed in one update over its whole content
SingleShot(size) == update(<<>>, Content(size))

\* C11: when hash_file returns, the bytes it fed to the hasher, update after
\* update, are the bytes of the file from first to last and nothing else,
\* whatever number of bytes each read returned; so the digest is the one of
\* a single update over the whole content.  The in-memory strategy of
\* digest_impl.rs is taken exactly for files of at most BUFFER_SIZE bytes,
\* and while the loop runs the hasher has been fed the bytes read so far.
C11_ChunksAreContent ==
    (pc = "unit" /\ call.fn = "hash_file") =>
        /\ call.done => call.fed = SingleShot(call.size)
        /\ call.at = "loop" => call.fed = Content(call.off)
        /\ (call.engine = "digest_impl" /\ call.strategy # NONE) =>
               (call.strategy = "whole" <=> call.size <= 32768)

\* a file of 32769 bytes was streamed, a read returned fewer bytes than the
\* buffer takes, and the last chunk filled only part of a buffer that still
\* held bytes of an earlier chunk
C11_Witness ==
    /\ pc = "unit" /\ call.fn = "hash_file" /\ call.done
    /\ call.size = 32769 /\ call.strategy = "stream"
    /\ call.shorts > 0 /\ call.reads >= 3
    /\ Len(call.buffer) > 1
    /\ \E k \in 2..Len(call.buffer) : call.buffer[k].src >= 0


(***************************************************************************)
(* The U32 encoding of a digest and the CRC32 adapter, byte by byte.       *)
(*                                                                         *)
(* A byte is a number in 0..255 and a digest a sequence of bytes.  A u32   *)
(* is kept as its two 16-bit halves, [hi, lo] for hi * 65536 + lo, so that  *)
(* every value up to 4294967295 can be written.  A string of decimal        *)
(* digits is a sequence of the characters "0" to "9".                      *)
(***************************************************************************)
U32(hi, lo) == [hi |-> hi, lo |-> lo]

Byte == 0..255

\* byteorder BigEndian::read_u32(&h): the first four bytes of h, most
\* significant first (the call panics on fewer than four bytes)
BigEndian_read_u32(h) == U32(h[1] * 256 + h[2], h[3] * 256 + h[4])

\* u32::to_le_bytes
to_le_bytes(c) == <<c.lo % 256, c.lo \div 256, c.hi % 256, c.hi \div 256>>

\* u32::to_be_bytes
to_be_bytes(c) == <<c.hi \div 256, c.hi % 256, c.lo \div 256, c.lo % 256>>

DigitChar == <<"0", "1", "2", "3", "4", "5", "6", "7", "8", "9">>

\* quotient and remainder of a u32 divided by ten
DivMod10(n) ==
    LET t == (n.hi % 10) * 65536 + n.lo
    IN  [q |-> U32(n.hi \div 10, t \div 10), r |-> t % 10]

\* Display of a u32: its decimal digits, most significant first
RECURSIVE Decimal(_)
Decimal(n) ==
    IF n.hi = 0 /\ n.lo < 10 THEN <<DigitChar[n.lo + 1]>>
    ELSE Decimal(DivMod10(n).q) \o <<DigitChar[DivMod10(n).r + 1]>>

\* the fill of a format width: text shorter than width gets fill in front
RECURSIVE PadLeft(_, _, _)
PadLeft(text, width, fill) ==
    IF Len(text) >= width THEN text ELSE PadLeft(<<fill>> \o text, width, fill)

\* format!("{number:010}")
format_010(number) == PadLeft(Decimal(number), 10, "0")

U32SizeError == "When U32 is requested, hash size must be 4 bytes"

Panic(m) == [ok |-> FALSE, err |-> "panic", msg |-> m]

\* digest_impl.rs hash_file_encoded, the U32 arm over the digest h
encode_u32(h) ==
    IF Len(h) # 4 THEN Err(U32SizeError)
    ELSE Ok(format_010(BigEndian_read_u32(h)))

\* hasher.rs hash_file_u32 over the digest h: no test of the length
hash_file_u32(h) ==
    IF Len(h) < 4 THEN Panic("range end index 4 out of range for slice")
    ELSE Ok(format_010(BigEndian_read_u32(h)))

\* exclusive or of two numbers of n bits
RECURSIVE XorBits(_, _, _)
XorBits(a, b, n) ==
    IF n = 0 THEN 0
    ELSE (((a % 2) + (b % 2)) % 2) + 2 * XorBits(a \div 2, b \div 2, n - 1)

Xor32(a, b) == U32(XorBits(a.hi, b.hi, 16), XorBits(a.lo, b.lo, 16))

Shr1(a) == U32(a.hi \div 2, (a.lo \div 2) + (a.hi % 2) * 32768)

\* crc32fast::Hasher: the CRC-32 of IEEE 802.3, one bit at a time
Crc32Poly == U32(60856, 33568)

Crc32Ones == U32(65535, 65535)

\* one bit of the register shifted out
Crc32Bit(crc) == IF crc.lo % 2 = 1 THEN Xor32(Shr1(crc), Crc32Poly) ELSE Shr1(crc)

RECURSIVE Crc32Bits(_, _)
Crc32Bits(crc, n) == IF n = 0 THEN crc ELSE Crc32Bits(Crc32Bit(crc), n - 1)

\* Hasher::update over one byte
Crc32Byte(crc, byte) == Crc32Bits(Xor32(crc, U32(0, byte)), 8)

\* Hasher::new_with_initial(state): the register of a hasher whose checksum
\* so far is state (Hasher::new is new_with_initial(0))
Crc32Register(state) == Xor32(state, Crc32Ones)

\* Hasher::finalize
Crc32Finalize(register) == Xor32(register, Crc32Ones)

\* the bytes of "test", "a", "123456789" and of an empty file
Contents == {<<>>, <<116, 101, 115, 116>>, <<97>>,
             <<49, 50, 51, 52, 53, 54, 55, 56, 57>>}

HalfSamples == {0, 1, 9, 255, 256, 15258, 32268, 32767, 32768, 51712, 55423, 65535}

ChecksumSamples == {U32(h, l) : h \in HalfSamples, l \in HalfSamples}

ByteSamples == {0, 1, 127, 128, 255}

\* digests of 4 bytes, and of the other lengths the Digest types have (16,
\* 20, 28) or could have
RawDigests ==
    {<<a, b, c, d>> : a \in ByteSamples, b \in ByteSamples,
                      c \in ByteSamples, d \in ByteSamples}
    \cup {[k \in 1..n |-> ((k * 37) + n) % 256] : n \in {0, 1, 2, 3, 5, 8, 16, 20, 28}}
    \cup {[k \in 1..n |-> IF k <= 4 THEN 0 ELSE 255] : n \in {5, 16}}

EncodeInputs ==
    [fn : {"u32_of_digest"}, engine : {"digest_impl", "hasher"}, data : {<<>>},
     pos : {0}, register : {U32(0, 0)}, checksum : {U32(0, 0)}, h : RawDigests,
     at : {"encode"}, out : {NoResult}, done : {FALSE}]
    \cup
    [fn : {"crc32_u32"}, engine : {"digest_impl", "hasher"}, data : Contents,
     pos : {0}, register : {Crc32Register(U32(0, 0))}, checksum : {U32(0, 0)},
     h : {<<>>}, at : {"update"}, out : {NoResult}, done : {FALSE}]
    \cup
    [fn : {"crc32_u32"}, engine : {"digest_impl", "hasher"}, data : {<<>>},
     pos : {0}, register : {Crc32Register(c) : c \in ChecksumSamples},
     checksum : {U32(0, 0)}, h : {<<>>}, at : {"update"}, out : {NoResult},
     done : {FALSE}]

InitEnc ==
    /\ call \in EncodeInputs
    /\ rev = "modular"
    /\ args = NoArgs
    /\ stdin = <<>>
    /\ pc = "unit"
    /\ config = NoConfig
    /\ paths = <<>>
    /\ idx = 0
    /\ cur = NoResult
    /\ jobs = <<>>
    /\ coordinator = FALSE
    /\ overall = NoBar
    /\ spinners = {}
    /\ helper = "none"
    /\ signal = FALSE
    /\ active_threads = 0
    /\ stdout = <<>>
    /\ stdout_lock = 0
    /\ pending = <<>>
    /\ stderr = <<>>
    /\ had_error = FALSE
    /\ error = NONE
    /\ exit_code = -1
    /\ io_ops = 0
    /\ disk = FileSystem
    /\ hash_calls = <<>>

\* Crc32::update, the next byte of the content of the file
Crc32Update ==
    /\ pc = "unit" /\ call.fn = "crc32_u32" /\ call.at = "update"
    /\ call.pos < Len(call.data)
    /\ call' = [call EXCEPT !.register = Crc32Byte(call.register, call.data[call.pos + 1]),
                            !.pos = call.pos + 1]
    /\ UNCHANGED <<unit_frame, stderr, io_ops, disk>>

\* Crc32::finalize_into: the checksum leaves the adapter as a digest of 4
\* bytes
Crc32FinalizeInto ==
    /\ pc = "unit" /\ call.fn = "crc32_u32" /\ call.at = "update"
    /\ call.pos = Len(call.data)
    /\ LET result == Crc32Finalize(call.register) IN
       call' = [call EXCEPT !.checksum = result, !.h = to_be_bytes(result),
                            !.at = "encode"]
    /\ UNCHANGED <<unit_frame, stderr, io_ops, disk>>

\* digest_impl.rs hash_file_encoded::<D>(.., U32) once hash_file returned h
HashFileEncodedU32 ==
    /\ pc = "unit" /\ call.fn \in {"u32_of_digest", "crc32_u32"}
    /\ call.at = "encode" /\ call.engine = "digest_impl"
    /\ call' = [call EXCEPT !.out = encode_u32(call.h), !.at = "done", !.done = TRUE]
    /\ UNCHANGED <<unit_frame, stderr, io_ops, disk>>

\* hasher.rs hash_file_u32::<D> once hash_file returned h
HashFileU32 ==
    /\ pc = "unit" /\ call.fn \in {"u32_of_digest", "crc32_u32"}
    /\ call.at = "encode" /\ call.engine = "hasher"
    /\ call' = [call EXCEPT !.out = hash_file_u32(call.h), !.at = "done", !.done = TRUE]
    /\ UNCHANGED <<unit_frame, stderr, io_ops, disk>>

NextEnc ==
    \/ Crc32Update
    \/ Crc32FinalizeInto
    \/ HashFileEncodedU32
    \/ HashFileU32

SpecEnc == InitEnc /\ [][NextEnc]_vars

\* the number a string of decimal digits denotes
DigitValue(ch) == CHOOSE d \in 0..9 : DigitChar[d + 1] = ch

RECURSIVE DecimalValueFrom(_, _)
DecimalValueFrom(acc, text) ==
    IF text = <<>> THEN acc
    ELSE LET t == acc.lo * 10 + DigitValue(Head(text))
         IN  DecimalValueFrom(U32(acc.hi * 10 + (t \div 65536), t % 65536), Tail(text))

DecimalValue(text) == DecimalValueFrom(U32(0, 0), text)

IsDecimal10(text) ==
    /\ Len(text) = 10
    /\ \A k \in 1..10 : \E d \in 0..9 : text[k] = DigitChar[d + 1]

\* the value of 4 bytes read most significant byte first
BigEndianValue(h) == U32(h[1] * 256 + h[2], h[3] * 256 + h[4])

\* C12: the U32 encoding of a digest that is not exactly 4 bytes long is the
\* size error, never a panic and never a number made of part of the digest;
\* the U32 encoding of a digest of 4 bytes is a string of exactly 10
\* decimal digits whose value is the 4 bytes read as a big-endian unsigned
\* 32-bit number.
C12_U32Encoding ==
    (pc = "unit" /\ call.fn = "u32_of_digest" /\ call.done) =>
        /\ Len(call.h) # 4 => call.out = Err(U32SizeError)
        /\ Len(call.h) = 4 =>
               /\ call.out.ok
               /\ IsDecimal10(call.out.val)
               /\ DecimalValue(call.out.val) = BigEndianValue(call.h)

\* the same statement for the encoder of hash/digest_impl.rs alone
C12_U32EncodingDigestImpl ==
    (call.fn = "u32_of_digest" /\ call.engine = "digest_impl") => C12_U32Encoding

\* the encoder of digest_impl.rs refused a digest of 16 bytes
C12_Witness ==
    /\ pc = "unit" /\ call.fn = "u32_of_digest" /\ call.done
    /\ call.engine = "digest_impl"
    /\ Len(call.h) = 16 /\ ~call.out.ok

\* C13: the digest the CRC32 adapter hands out is the checksum in 4 bytes,
\* most significant first, so the U32 encoding of it is the checksum itself
\* in 10 decimal digits; the content "test" gives 3632233996.
C13_Crc32BigEndian ==
    (pc = "unit" /\ call.fn = "crc32_u32") =>
        /\ call.at \in {"encode", "done"} =>
               /\ Len(call.h) = 4
               /\ \A k \in 1..4 : call.h[k] \in Byte
               /\ BigEndianValue(call.h) = call.checksum
        /\ call.done =>
               /\ call.out.ok
               /\ IsDecimal10(call.out.val)
               /\ DecimalValue(call.out.val) = call.checksum
               /\ call.data = <<116, 101, 115, 116>> =>
                      call.out.val = <<"3", "6", "3", "2", "2", "3", "3", "9", "9", "6">>

\* the checksum of "test", 0xD87F7E0C, went through the adapter and the
\* encoder
C13_Witness ==
    /\ pc = "unit" /\ call.fn = "crc32_u32" /\ call.done
    /\ call.data = <<116, 101, 115, 116>>
    /\ call.checksum = U32(55423, 32268)
    /\ call.h = <<216, 127, 126, 12>>


\* the EncodedHash of a content under an algorithm and an encoding, as text
EncodedHash(algo, encoding, content) == <<"hash", encoding, algo, content>>

FairSpec ==
    /\ Spec
    /\ WF_vars(HandleFinishSend)
    /\ WF_vars(HandleFinishJoin)
    /\ WF_vars(HelperRecv)
    /\ WF_vars(HelperRecvSpinning)

\* ProgressHandle::finish is running: called and not yet returned
InFinish == rev = "monolith" /\ pc \in {"st_finish", "st_join"}

\* hash_with_progress of main.rs has returned to the loop of file_hashes_st
AfterFinish == rev = "monolith" /\ jobs = <<>> /\ pc \in {"st_report", "worker_end", "exited"}

\* C15: whether the completion signal or the threshold timeout comes first,
\* when ProgressHandle::finish has returned the helper thread has ended, the
\* counter of helper threads is back to zero and no spinner is displayed;
\* while finish waits, the signal it sent is in the channel or the helper
\* has ended; and a call of finish always returns.
C15_FinishCleansUp ==
    /\ [](AfterFinish => (helper = "none" /\ spinners = {} /\ active_threads = 0))
    /\ []((rev = "monolith" /\ pc = "st_join") =>
              (helper = "done" \/ (helper \in {"waiting", "spinning"} /\ signal)))
    /\ (InFinish ~> AfterFinish)

\* the timeout fired and the spinner was created, and then the completion
\* signal arrived: finish waits for a helper that is showing the spinner
C15_Witness ==
    /\ rev = "monolith" /\ pc = "st_join"
    /\ helper = "spinning" /\ signal
    /\ spinners # {}


(***************************************************************************)
(* ProgressManager::create_file_progress called from several threads at    *)
(* once.  Each caller loads the counter, compares it with the ceiling,     *)
(* and, as a separate atomic operation, increments it and spawns its       *)
(* helper; it then hashes, and calls finish on the handle it got, or lets   *)
(* the handle go out of scope, which drops the sender of the channel.      *)
(***************************************************************************)
MaxCallers == 5

Callers == 1..MaxCallers

NewCaller == [at |-> "load", helper |-> "none", signal |-> FALSE, dropped |-> FALSE]

ProgressInputs ==
    [fn : {"create_file_progress"}, debug_mode : BOOLEAN,
     callers : {[i \in Callers |-> NewCaller]}]

InitCallers ==
    /\ call \in ProgressInputs
    /\ rev = "monolith"
    /\ args = NoArgs
    /\ stdin = <<>>
    /\ pc = "unit"
    /\ config = NoConfig
    /\ paths = <<>>
    /\ idx = 0
    /\ cur = NoResult
    /\ jobs = <<>>
    /\ coordinator = FALSE
    /\ overall = NoBar
    /\ spinners = {}
    /\ helper = "none"
    /\ signal = FALSE
    /\ active_threads = 0
    /\ stdout = <<>>
    /\ stdout_lock = 0
    /\ pending = <<>>
    /\ stderr = <<>>
    /\ had_error = FALSE
    /\ error = NONE
    /\ exit_code = -1
    /\ io_ops = 0
    /\ disk = FileSystem
    /\ hash_calls = <<>>

callers_frame == <<input_vars, pc, config, paths, idx, cur, jobs, coordinator, overall,
                   helper, signal, output_vars, had_error, error, exit_code, io_ops, disk,
                   hash_calls>>

\* should_show_progress: the load of the counter and the comparison; without
\* progress the caller gets None and goes on to hash
CreateFileProgressLoad(i) ==
    /\ pc = "unit" /\ call.fn = "create_file_progress"
    /\ call.callers[i].at = "load"
    /\ call' = [call EXCEPT !.callers[i].at =
                    IF ~call.debug_mode /\ active_threads < MAX_PROGRESS_THREADS
                    THEN "fetch_add" ELSE "hash"]
    /\ UNCHANGED <<callers_frame, active_threads, spinners>>

\* the channel, fetch_add(1) and thread::spawn: the caller holds a handle
CreateFileProgressSpawn(i) ==
    /\ pc = "unit" /\ call.fn = "create_file_progress"
    /\ call.callers[i].at = "fetch_add"
    /\ active_threads' = active_threads + 1
    /\ call' = [call EXCEPT !.callers[i].at = "hash", !.callers[i].helper = "waiting"]
    /\ UNCHANGED <<callers_frame, spinners>>

\* the caller has hashed its file; with a handle it calls finish, which
\* sends the signal
CallerFinishSend(i) ==
    /\ pc = "unit" /\ call.fn = "create_file_progress"
    /\ call.callers[i].at = "hash"
    /\ call' = IF call.callers[i].helper = "none"
               THEN [call EXCEPT !.callers[i].at = "returned"]
               ELSE [call EXCEPT !.callers[i].at = "join", !.callers[i].signal = TRUE]
    /\ UNCHANGED <<callers_frame, active_threads, spinners>>

\* finish: join returns once the helper has ended
CallerFinishJoin(i) ==
    /\ pc = "unit" /\ call.fn = "create_file_progress"
    /\ call.callers[i].at = "join" /\ call.callers[i].helper = "done"
    /\ call' = [call EXCEPT !.callers[i].at = "returned"]
    /\ UNCHANGED <<callers_frame, active_threads, spinners>>

\* helper of caller i: recv_timeout returns Timeout, the spinner is shown
CallerHelperTimeout(i) ==
    /\ pc = "unit" /\ call.fn = "create_file_progress"
    /\ call.callers[i].helper = "waiting" /\ ~call.callers[i].signal
    /\ spinners' = spinners \cup {i}
    /\ call' = [call EXCEPT !.callers[i].helper = "spinning"]
    /\ UNCHANGED <<callers_frame, active_threads>>

\* helper of caller i: the signal is received (by recv_timeout, or by recv
\* under the spinner, which is then cleared); fetch_sub(1); the thread ends
CallerHelperRecv(i) ==
    /\ pc = "unit" /\ call.fn = "create_file_progress"
    /\ call.callers[i].helper \in {"waiting", "spinning"} /\ call.callers[i].signal
    /\ spinners' = spinners \ {i}
    /\ active_threads' = active_threads - 1
    /\ call' = [call EXCEPT !.callers[i].helper = "done", !.callers[i].signal = FALSE]
    /\ UNCHANGED callers_frame

\* the caller lets its ProgressHandle go out of scope without finish: the
\* sender is dropped with no signal sent, the thread is detached
CallerDropHandle(i) ==
    /\ pc = "unit" /\ call.fn = "create_file_progress"
    /\ call.callers[i].at = "hash" /\ call.callers[i].helper # "none"
    /\ call' = [call EXCEPT !.callers[i].at = "returned", !.callers[i].dropped = TRUE]
    /\ UNCHANGED <<callers_frame, active_threads, spinners>>

\* a helper that ends on a dropped sender without fetch_sub
CallerHelperDisconnected_keep(i) ==
    /\ pc = "unit" /\ call.fn = "create_file_progress"
    /\ call.callers[i].helper \in {"waiting", "spinning"}
    /\ call.callers[i].dropped /\ ~call.callers[i].signal
    /\ spinners' = spinners \ {i}
    /\ call' = [call EXCEPT !.callers[i].helper = "done"]
    /\ UNCHANGED <<callers_frame, active_threads>>

\* helper of caller i: the sender was dropped: recv_timeout returns
\* Disconnected, or recv under the spinner returns Err and the spinner is
\* cleared; fetch_sub(1); the thread ends
CallerHelperDisconnected(i) ==
    /\ pc = "unit" /\ call.fn = "create_file_progress"
    /\ call.callers[i].helper \in {"waiting", "spinning"}
    /\ call.callers[i].dropped /\ ~call.callers[i].signal
    /\ spinners' = spinners \ {i}
    /\ active_threads' = active_threads - 1
    /\ call' = [call EXCEPT !.callers[i].helper = "done"]
    /\ UNCHANGED callers_frame

NextCallers ==
    \/ \E i \in Callers : CreateFileProgressLoad(i)
    \/ \E i \in Callers : CreateFileProgressSpawn(i)
    \/ \E i \in Callers : CallerFinishSend(i)
    \/ \E i \in Callers : CallerFinishJoin(i)
    \/ \E i \in Callers : CallerHelperTimeout(i)
    \/ \E i \in Callers : CallerHelperRecv(i)
    \/ \E i \in Callers : CallerDropHandle(i)
    \/ \E i \in Callers : CallerHelperDisconnected(i)

SpecCallers == InitCallers /\ [][NextCallers]_vars

\* the helper threads that are alive
LiveHelpers == {i \in Callers : call.callers[i].helper \in {"waiting", "spinning"}}

\* C16: with any number of callers of create_file_progress, one after the
\* other or at the same time, the counter of helper threads and the number
\* of helper threads alive never exceed MAX_PROGRESS_THREADS; a caller that
\* finds the counter at the ceiling gets no helper thread.
C16_CeilingHolds ==
    (pc = "unit" /\ call.fn = "create_file_progress") =>
        /\ active_threads <= MAX_PROGRESS_THREADS
        /\ Cardinality(LiveHelpers) <= MAX_PROGRESS_THREADS

\* what does hold for concurrent callers: the counter is the number of
\* helper threads alive, no caller sets out to spawn in debug mode, and
\* there are never more helper threads than callers
C16_CounterCountsHelpers ==
    (pc = "unit" /\ call.fn = "create_file_progress") =>
        /\ active_threads = Cardinality(LiveHelpers)
        /\ call.debug_mode => active_threads = 0
        /\ active_threads <= MaxCallers

\* in the runs of the program create_file_progress is called by the loop of
\* file_hashes_st alone, one call at a time: one helper thread at most
C16_CeilingInProgram ==
    pc # "unit" => (active_threads <= 1 /\ active_threads <= MAX_PROGRESS_THREADS)

\* five callers have loaded the counter before any of them incremented it
C16_Witness ==
    /\ pc = "unit" /\ call.fn = "create_file_progress"
    /\ \A i \in Callers : call.callers[i].at = "fetch_add"
    /\ active_threads = 0


\* no progress indicator of any kind exists: no coordinator, no aggregate
\* bar, no spinner, no helper thread
NoIndicator ==
    /\ coordinator = FALSE /\ overall = NoBar /\ spinners = {}
    /\ helper = "none" /\ active_threads = 0

\* the command line a without the flag -n/--no-progress
WithProgress(a) == [a EXCEPT !.no_progress = FALSE]

\* the configuration and the files of the run of revision r on command line
\* a (which names its paths)
ParseFor(r, a) ==
    IF r = "modular" THEN process_command_line(a) ELSE main_process_command_line(a)

FilesFor(r, cfg) ==
    IF r = "modular" THEN get_required_filenames(cfg, <<>>)
    ELSE main_get_required_filenames(cfg, <<>>)

\* the files among files whose hash attempt under cfg succeeds (ok) or
\* fails (~ok)
RECURSIVE Outcomes(_, _, _)
Outcomes(cfg, files, ok) ==
    IF files = <<>> THEN <<>>
    ELSE (IF call_hasher(cfg.algorithm, cfg.encoding, Head(files)).res.ok = ok
          THEN <<Head(files)>> ELSE <<>>) \o Outcomes(cfg, Tail(files), ok)

SameBag(a, b) ==
    \A x \in {a[k] : k \in DOMAIN a} \cup {b[k] : k \in DOMAIN b} :
        Count(a, x) = Count(b, x)

\* the run has ended with the hash lines, the file diagnostics and the
\* failure status of the same command line without -n
SameAsWithProgress ==
    LET ref == ParseFor(rev, WithProgress(args)) IN
    ref.ok =>
        LET files == FilesFor(rev, ref.val) IN
        files.ok =>
            /\ SameBag(OutFiles(stdout), Outcomes(ref.val, files.val, TRUE))
            /\ SameBag(ErrFiles(stderr), Outcomes(ref.val, files.val, FALSE))
            /\ (exit_code # 0) =
                   (rev = "modular" /\ Outcomes(ref.val, files.val, FALSE) # <<>>)

\* C17: in a run whose command line sets the no-progress flag no progress
\* indicator of any kind ever exists, in sequential and in parallel mode,
\* and the run ends with the same hash lines, the same file diagnostics
\* and the same failure status as the run of the command line without it.
C17_NoProgressSuppresses ==
    (pc # "unit" /\ args.no_progress) =>
        /\ NoIndicator
        /\ (pc = "exited" /\ args.paths # <<>>) => SameAsWithProgress

\* the same statement for the runs of main and core/worker.rs alone
C17_NoProgressModular ==
    rev = "modular" => C17_NoProgressSuppresses

\* a parallel run with the flag set has ended, with a hash line and a file
\* diagnostic
C17_Witness ==
    /\ rev = "modular" /\ pc = "exited" /\ args.no_progress
    /\ args.paths # <<>> /\ jobs # <<>>
    /\ OutFiles(stdout) # <<>> /\ ErrFiles(stderr) # <<>>


(***************************************************************************)
(* Parallel mode of main.rs over a list long enough for the aggregate bar  *)
(* (OVERALL_MIN_FILES paths).  The pool runs PoolSize workers at a time,   *)
(* which take the paths in the order of the list.                          *)
(***************************************************************************)
PoolSize == 2

\* lists of OVERALL_MIN_FILES paths: every file readable, or one of them not
BarPathLists ==
    {[k \in 1..OVERALL_MIN_FILES |-> "a"]}
    \cup {[k \in 1..OVERALL_MIN_FILES |-> IF k = bad THEN "u" ELSE "a"] :
              bad \in {1, 2, OVERALL_MIN_FILES}}

InitBar ==
    /\ rev = "monolith"
    /\ args \in [algorithm : {NONE, "crc32"}, encoding : {NONE}, debug : {FALSE},
                 exclude_fn : BOOLEAN, single_thread : {FALSE},
                 case_sensitive : {FALSE}, no_progress : {FALSE},
                 limit : {NONE}, unknown_dash : {FALSE}, paths : BarPathLists]
    /\ stdin = <<>>
    /\ pc = "start"
    /\ config = NoConfig
    /\ paths = <<>>
    /\ idx = 0
    /\ cur = NoResult
    /\ jobs = <<>>
    /\ coordinator = FALSE
    /\ overall = NoBar
    /\ spinners = {}
    /\ helper = "none"
    /\ signal = FALSE
    /\ active_threads = 0
    /\ stdout = <<>>
    /\ stdout_lock = 0
    /\ pending = <<>>
    /\ stderr = <<>>
    /\ had_error = FALSE
    /\ error = NONE
    /\ exit_code = -1
    /\ io_ops = 0
    /\ disk = FileSystem
    /\ hash_calls = <<>>
    /\ call = NoCall

\* a worker of the pool is free and path i is the next of the list
PoolTakes(i) ==
    /\ \A j \in 1..(i - 1) : hash_calls[j] > 0
    /\ Cardinality({j \in DOMAIN jobs : hash_calls[j] > 0 /\ jobs[j].pc # "done"}) < PoolSize

NextBar ==
    \/ MainProcessCommandLine
    \/ MainWorkerFunc
    \/ MainFileHashesMtBegin
    \/ \E i \in DOMAIN jobs : PoolTakes(i) /\ MainMtCallHasher(i)
    \/ \E i \in DOMAIN jobs : MainMtInc(i)
    \/ \E i \in DOMAIN jobs : StdoutAcquire(i)
    \/ \E i \in DOMAIN jobs : StdoutWrite(i)
    \/ \E i \in DOMAIN jobs : MainMtReportErr(i)
    \/ MainMtJoin
    \/ MainWorkerEnd

SpecBar == InitBar /\ [][NextBar]_vars

\* a result line is being written to standard output, or is the next thing
\* the thread does
WritingResult ==
    \/ pc = "st_report" /\ cur.ok
    \/ pc = "mt_print" /\ idx \in DOMAIN jobs /\ jobs[idx].res.ok
    \/ /\ pc = "mt_map" /\ rev = "monolith"
       /\ \E i \in DOMAIN jobs : jobs[i].pc \in {"print", "write"} /\ jobs[i].res.ok

\* a progress indicator is on display: a spinner, or the aggregate bar
\* created and not finished
IndicatorActive ==
    \/ spinners # {}
    \/ helper = "spinning"
    \/ overall.exists /\ ~overall.finished

\* C18: in every state in which a result line is being written to standard
\* output no progress indicator is active: the spinner of the file has been
\* cleared, and in parallel mode the aggregate bar is finished or does not
\* exist.
C18_NoIndicatorWhileWriting == WritingResult => ~IndicatorActive

\* the same statement for the runs of main and core/worker.rs alone
C18_NoIndicatorModular == rev = "modular" => C18_NoIndicatorWhileWriting

\* the same statement for sequential mode of main.rs alone
C18_NoIndicatorMainSt == (rev = "monolith" /\ jobs = <<>>) => C18_NoIndicatorWhileWriting

\* parallel mode of core/worker.rs prints a collected result after the
\* aggregate bar it had was finished
C18_Witness ==
    /\ rev = "modular" /\ pc = "mt_print"
    /\ WritingResult
    /\ overall.exists /\ overall.finished


\* a step of sequential mode that puts a spinner on display
SpinnerShown == jobs = <<>> /\ jobs' = <<>> /\ spinners' # spinners /\ spinners' # {}

\* C19: in sequential mode a spinner is put on display for a file only by
\* the threshold timeout firing while the hash of that file is running: a
\* file whose hash completes before the timeout fires never has a spinner.
C19_OnlyAfterThreshold ==
    [][SpinnerShown =>
           (helper = "waiting" /\ helper' = "spinning" /\ pc = "st_hash")]_vars

\* what does hold in sequential mode.  With main.rs and progress.rs a
\* spinner is put on display only by the helper's recv_timeout ending in
\* Timeout with no completion signal in the channel, during the hash or
\* after it until finish sends the signal, and a helper that got the signal
\* first never shows one.  With core/worker.rs every file has its spinner
\* while it is hashed if the coordinator exists, and none otherwise.
C19_SpinnerOnTimeoutOrAlways ==
    /\ [][(SpinnerShown /\ rev = "monolith") =>
              /\ helper = "waiting" /\ ~signal /\ helper' = "spinning"
              /\ pc \in {"st_hash", "st_finish"}
              /\ spinners' = {idx}]_vars
    /\ []((rev = "monolith" /\ jobs = <<>> /\ helper \in {"none", "waiting", "done"})
              => spinners = {})
    /\ []((rev = "modular" /\ pc = "st_hash") => (idx \in spinners <=> coordinator))

\* with main.rs the hash of the file has returned, finish has not sent the
\* signal yet, and the timeout has fired: the spinner is on display
C19_Witness ==
    /\ rev = "monolith" /\ pc = "st_finish"
    /\ helper = "spinning" /\ ~signal
    /\ spinners = {idx} /\ cur # NoResult


\* parallel mode: the batch has been handed to the pool
ParallelMode == jobs # <<>>

\* a per-file indicator exists: a spinner, a helper thread, or a helper
\* counted in ACTIVE_PROGRESS_THREADS
PerFileIndicator == spinners # {} \/ helper # "none" \/ active_threads # 0

\* C20: in parallel mode no per-file indicator is ever created, whether or
\* not an aggregate progress bar exists.
C20_NoPerFileInParallel == ParallelMode => ~PerFileIndicator

\* what does hold in parallel mode.  main.rs creates no per-file indicator.
\* core/worker.rs never starts a helper thread, and a worker has a spinner
\* for its file only with a coordinator and no aggregate bar; then every
\* worker that is hashing has one, and only the workers have them.
C20_PerFileOnlyWithoutBar ==
    ParallelMode =>
        /\ helper = "none" /\ active_threads = 0
        /\ rev = "monolith" => spinners = {}
        /\ spinners # {} => (coordinator /\ ~overall.exists)
        /\ spinners \subseteq DOMAIN jobs
        /\ \A i \in DOMAIN jobs :
               (rev = "modular" /\ pc = "mt_map" /\ jobs[i].pc = "hash") =>
                   (i \in spinners <=> (coordinator /\ ~overall.exists))

\* two workers of core/worker.rs each show the spinner of their file
C20_Witness ==
    /\ rev = "modular" /\ pc = "mt_map" /\ Len(jobs) = 2
    /\ coordinator /\ ~overall.exists
    /\ spinners = {1, 2}

(***************************************************************************)
(* The aggregate progress bar of a batch.                                  *)
(***************************************************************************)
\* the workers that are past the point where file_hashes_mt advances the bar
PastInc == {i \in DOMAIN jobs : jobs[i].pc \notin {"spinner", "hash", "clear", "inc"}}

\* the batch of two paths or more has been processed, with progress enabled
BatchFinishedWithProgress ==
    /\ pc = "worker_end" /\ Len(paths) >= 2
    /\ ~config.no_progress

\* C21: for a batch with progress enabled an aggregate progress indicator
\* exists in both thread modes, and when the batch finishes its position is
\* the number of input paths.
C21_AggregateInBothModes ==
    BatchFinishedWithProgress => (overall.exists /\ overall.pos = Len(paths))

\* what does hold.  Sequential mode never has an aggregate bar.  In parallel
\* mode a bar exists only with progress enabled (with progress.rs: from
\* OVERALL_MIN_FILES files on and outside debug mode); its length is the
\* number of paths, its position is the number of workers whose hash call
\* has returned and that have advanced it, whatever the result of the file,
\* and once the workers are joined it stands at the number of paths and is
\* finished.
C21_BarCountsCompletedFiles ==
    /\ ~ParallelMode => ~overall.exists
    /\ overall.exists =>
          /\ ~config.no_progress
          /\ overall.len = Len(paths)
          /\ rev = "monolith" =>
                 (Len(paths) >= OVERALL_MIN_FILES /\ ~config.debug_mode)
          /\ overall.pos = Cardinality(PastInc)
          /\ pc \in {"mt_print", "worker_end", "exited"} =>
                 (overall.pos = Len(paths) /\ overall.finished)
          /\ pc = "mt_map" => ~overall.finished

\* a parallel batch of core/worker.rs is finished, one of its two files
\* failed, and the bar stands at 2 of 2
C21_Witness ==
    /\ rev = "modular" /\ pc = "worker_end" /\ ParallelMode
    /\ overall.exists /\ overall.finished
    /\ overall.pos = 2 /\ Len(paths) = 2
    /\ \E i \in DOMAIN jobs : ~jobs[i].res.ok
    /\ \E i \in DOMAIN jobs : jobs[i].res.ok

(***************************************************************************)
(* Configuration errors.                                                   *)
(***************************************************************************)
ConfigErrors == {AlgorithmError, EncodingError, PairingError, UnknownArgument}

\* the run has ended on a configuration error
EndedOnConfigError == pc = "exited" /\ error \in ConfigErrors

\* the usage help is on standard output
HelpOnStdout == \E k \in DOMAIN stdout : stdout[k] = <<"lit", "USAGE:">>

\* C22: a configuration error ends the run before any path is resolved or
\* hashed, with a non-zero exit status, the error and the usage help on
\* stderr, and nothing on stdout.
C22_ConfigErrorToStderr ==
    /\ (error \in ConfigErrors) =>
          /\ config = NoConfig /\ paths = <<>>
          /\ hash_calls = <<>> /\ io_ops = 0 /\ jobs = <<>>
          /\ pc \in {"main_err", "exited"}
    /\ EndedOnConfigError =>
          /\ exit_code = 1
          /\ \E k \in DOMAIN stderr : stderr[k] = <<"error", error>>
          /\ \E k \in DOMAIN stderr : stderr[k] = <<"help", "USAGE:">>
          /\ stdout = <<>>

\* the same for the revision whose main sends the help to stderr
C22_ConfigErrorModular == rev = "modular" => C22_ConfigErrorToStderr

\* main.rs has ended on an unknown algorithm name with the usage help on
\* standard output
C22_Witness ==
    /\ rev = "monolith" /\ EndedOnConfigError
    /\ error = AlgorithmError /\ args.paths # <<>>
    /\ HelpOnStdout /\ exit_code = 1

(***************************************************************************)
(* The text of the result lines.                                           *)
(***************************************************************************)
\* the line that the claim prescribes for path number i, newline left out
ExactLine(i) ==
    IF config.exclude_fn
    THEN <<HashPiece(Attempt(i).val)>>
    ELSE <<HashPiece(Attempt(i).val), <<"lit", " ">>, <<"path", paths[i]>>>>

\* the prescribed lines of the first k paths whose attempt succeeds
RECURSIVE ExactLines(_)
ExactLines(k) ==
    IF k = 0 THEN <<>>
    ELSE ExactLines(k - 1) \o (IF Attempt(k).ok THEN <<ExactLine(k)>> ELSE <<>>)

CarriesHash(l) == \E k \in DOMAIN l : l[k][1] = "hash"

\* the complete lines of standard output that carry a hash
HashLines ==
    LET ls == SplitLines(stdout, <<>>) IN
    SelectSeq(SubSeq(ls, 1, Len(ls) - 1), CarriesHash)

\* C23: for every successfully hashed file the stdout line is exactly the
\* encoded hash alone when exclude_fn is set, and exactly the encoded hash,
\* one space and the path otherwise, in sequential and in parallel mode.
C23_LineFormat ==
    BatchDone =>
        LET ls == SplitLines(stdout, <<>>) IN
        /\ ls[Len(ls)] = <<>>
        /\ Len(HashLines) = Len(ExactLines(Len(paths)))
        /\ \A i \in DOMAIN paths :
              Attempt(i).ok =>
                  Count(HashLines, ExactLine(i))
                      = Count(ExactLines(Len(paths)), ExactLine(i))
        /\ (rev = "modular" \/ ~ParallelMode) => HashLines = ExactLines(Len(paths))
        /\ \A k \in DOMAIN HashLines :
              /\ HashLines[k][1][2] = config.encoding
              /\ HashLines[k][1][3] = config.algorithm

\* a parallel batch of two readable files hashed with exclude_fn: two lines
\* of hash and newline
C23_Witness ==
    /\ BatchDone /\ ParallelMode /\ rev = "modular"
    /\ Len(paths) = 2 /\ Len(HashLines) = 2
    /\ config.exclude_fn
    /\ Len(stdout) = 4

\* a sequential batch without exclude_fn: hash, space, path, newline
C23_WitnessWithPath ==
    /\ BatchDone /\ ~ParallelMode /\ Len(paths) = 2 /\ Len(HashLines) = 1
    /\ ~config.exclude_fn
    /\ Len(stdout) = 4 /\ stdout[2] = SP /\ stdout[3][1] = "path"

(***************************************************************************)
(* Frame of the hashing engine and of the coordinator.                     *)
(***************************************************************************)
\* C24: no operation of call_hasher, hash_file, file_hashes_st or
\* file_hashes_mt writes, truncates, creates or deletes a file, on the
\* success path and on every error path: the file system stays as the run
\* found it; and the configuration, once built, is not modified.
C24_ReadOnly ==
    /\ [](disk = FileSystem)
    /\ [][config # NoConfig => config' = config]_vars
    /\ [][args' = args]_vars

\* a batch is done in which one file was read and hashed and the other
\* could not be read
C24_Witness ==
    /\ BatchDone /\ Len(paths) = 2
    /\ Attempt(1).ok /\ ~Attempt(2).ok
    /\ io_ops >= 3
    /\ disk = FileSystem
    /\ config # NoConfig

(***************************************************************************)
(* Runs over the kinds of pattern that path resolution tells apart: two    *)
(* files, a file that cannot be read, a name that does not exist, a        *)
(* directory, a pattern with a metacharacter that matches nothing; with    *)
(* and without a limit.                                                    *)
(***************************************************************************)
ResolvePool == {"a", "big", "u", "m", "d", "z*"}

ResolveLists == SeqsUpTo(ResolvePool, MaxPaths)

InitResolve ==
    /\ rev \in {"modular", "monolith"}
    /\ args \in [algorithm : {NONE}, encoding : {NONE}, debug : {FALSE},
                 exclude_fn : {FALSE}, single_thread : BOOLEAN,
                 case_sensitive : {FALSE}, no_progress : {FALSE},
                 limit : {NONE, "0", "1"}, unknown_dash : BOOLEAN,
                 paths : ResolveLists]
    /\ stdin \in (IF args.paths = <<>> /\ ~args.unknown_dash
                  THEN SeqsUpTo({"a", "m"}, MaxPaths) ELSE {<<>>})
    /\ pc = "start"
    /\ config = NoConfig
    /\ paths = <<>>
    /\ idx = 0
    /\ cur = NoResult
    /\ jobs = <<>>
    /\ coordinator = FALSE
    /\ overall = NoBar
    /\ spinners = {}
    /\ helper = "none"
    /\ signal = FALSE
    /\ active_threads = 0
    /\ stdout = <<>>
    /\ stdout_lock = 0
    /\ pending = <<>>
    /\ stderr = <<>>
    /\ had_error = FALSE
    /\ error = NONE
    /\ exit_code = -1
    /\ io_ops = 0
    /\ disk = FileSystem
    /\ hash_calls = <<>>
    /\ call = NoCall

SpecResolve == InitResolve /\ [][Next]_vars

\* the pattern has no metacharacter and names neither a file nor a directory
LiteralMissing(p) == ~HasMeta(p) /\ ~is_file(p) /\ ~(exists(p) /\ is_dir(p))

\* the paths a pattern stands for when it is not LiteralMissing: itself if
\* it names a file, nothing if it names a directory or matches nothing
Contribution(p) == IF KindOf(p) \in {"file", "unreadable"} THEN <<p>> ELSE <<>>

RECURSIVE Contributions(_)
Contributions(ps) ==
    IF ps = <<>> THEN <<>> ELSE Contribution(Head(ps)) \o Contributions(Tail(ps))

\* the command line was accepted and names patterns, and get_required_filenames
\* has returned
Resolved == config # NoConfig /\ args.paths # <<>> /\ pc \notin {"start", "worker"}

\* C25: a pattern without metacharacters that is neither an existing file
\* nor an existing directory makes get_required_filenames fail with 'File
\* not found', and the run ends before any file is hashed, valid files of
\* other arguments included; an existing directory and a metacharacter
\* pattern that matches nothing are accepted and contribute no path.
C25_LiteralNotFoundAborts ==
    Resolved =>
        IF \E k \in DOMAIN args.paths : LiteralMissing(args.paths[k])
        THEN /\ error = "File not found"
             /\ pc \in {"main_err", "exited"}
             /\ exit_code \in {-1, 1}
             /\ paths = <<>> /\ hash_calls = <<>> /\ io_ops = 0 /\ jobs = <<>>
             /\ OutFiles(stdout) = <<>>
        ELSE /\ error = NONE
             /\ LET found == Contributions(args.paths)
                    want == IF config.limit_num # NO_LIMIT /\ config.limit_num < Len(found)
                            THEN SubSeq(found, 1, config.limit_num) ELSE found IN
                IF want = <<>> THEN paths = <<>> /\ pc = "exited" /\ stdout = <<>>
                ELSE paths = want

\* core/worker.rs: the file a was named before the missing name m, and the
\* run has ended with the error and not one hash
C25_Witness ==
    /\ rev = "modular" /\ args.paths = <<"a", "m">>
    /\ pc = "exited" /\ error = "File not found" /\ exit_code = 1
    /\ io_ops = 0 /\ stdout = <<>>

\* a directory and a pattern that matches nothing next to a file: the file
\* alone was hashed
C25_WitnessIgnored ==
    /\ args.paths \in {<<"d", "a">>, <<"a", "z*">>}
    /\ pc = "exited" /\ exit_code = 0
    /\ paths = <<"a">> /\ OutFiles(stdout) = <<"a">>

\* the smaller of two numbers
Min(a, b) == IF a < b THEN a ELSE b

\* the list that the patterns of the command line, or else the lines of
\* standard input, resolve to
ResolvedList == IF args.paths # <<>> THEN Contributions(args.paths) ELSE Contributions(stdin)

\* the step in which worker_func gets the path list, without error
ResolveStep == pc = "worker" /\ pc' # "worker" /\ error' = NONE

\* number of call_hasher calls made so far
RECURSIVE SumCalls(_)
SumCalls(s) == IF s = <<>> THEN 0 ELSE Head(s) + SumCalls(Tail(s))

\* C26: with a limit L, get_required_filenames returns exactly the first
\* min(L, n) paths of the resolved list of n paths, in the same order, so
\* that at most L files are hashed; with L = 0 no file is hashed and the
\* run succeeds with no output.
C26_LimitTakesPrefix ==
    /\ [][(ResolveStep /\ config.limit_num # NO_LIMIT) =>
             LET n == Len(ResolvedList)
                 want == SubSeq(ResolvedList, 1, Min(config.limit_num, n)) IN
             /\ paths' = want
             /\ want = <<>> => (pc' = "exited" /\ exit_code' = 0)]_vars
    /\ [][(ResolveStep /\ config.limit_num = NO_LIMIT) => paths' = ResolvedList]_vars
    /\ []((config # NoConfig /\ config.limit_num # NO_LIMIT) =>
             /\ Len(paths) <= config.limit_num
             /\ SumCalls(hash_calls) <= config.limit_num)
    /\ []((config # NoConfig /\ config.limit_num = 0 /\ pc = "exited" /\ error = NONE) =>
             /\ exit_code = 0
             /\ paths = <<>> /\ io_ops = 0 /\ hash_calls = <<>>
             /\ stdout = <<>> /\ stderr = <<>>)

\* two files were named with limit 1: the first alone was hashed
C26_Witness ==
    /\ config # NoConfig /\ config.limit_num = 1
    /\ args.paths = <<"u", "a">>
    /\ pc = "exited" /\ paths = <<"u">>
    /\ hash_calls = <<1>>

\* limit 0 with two files named: the run has ended with success and no output
C26_WitnessZero ==
    /\ config # NoConfig /\ config.limit_num = 0
    /\ args.paths = <<"a", "a">>
    /\ pc = "exited" /\ exit_code = 0 /\ stdout = <<>> /\ io_ops = 0

(***************************************************************************)
(* Choice of the mode.                                                     *)
(***************************************************************************)
SequentialPcs == {"st_begin", "st_spinner", "st_hash", "st_clear", "st_report",
                  "st_progress", "st_finish", "st_join"}
ParallelPcs == {"mt_begin", "mt_map", "mt_print"}

\* C27: the mode is chosen once per run: sequential if and only if the
\* single-thread flag is set or the resolved list has exactly one element,
\* parallel otherwise; an empty list runs neither mode and the run returns
\* success with no output (no result line and no file diagnostic in any
\* case, and nothing at all on either stream outside debug mode).
C27_ModeChosenOnce ==
    /\ [][ResolveStep =>
             /\ pc' \in {"st_begin", "mt_begin", "exited"}
             /\ pc' = "st_begin" <=>
                    (paths' # <<>> /\ (config.single_thread \/ Len(paths') = 1))
             /\ pc' = "mt_begin" <=>
                    (Len(paths') >= 2 /\ ~config.single_thread)
             /\ pc' = "exited" <=> ResolvedList = <<>> \/ config.limit_num = 0]_vars
    /\ [][(pc' \in SequentialPcs \cup ParallelPcs /\ pc \notin SequentialPcs \cup ParallelPcs)
              => pc = "worker"]_vars
    /\ [][(pc \in SequentialPcs => pc' \notin ParallelPcs)
              /\ (pc \in ParallelPcs => pc' \notin SequentialPcs)
              /\ (pc \in {"worker_end", "exited"} => pc' \in {"worker_end", "exited"})]_vars
    /\ [](pc \in SequentialPcs => (config.single_thread \/ Len(paths) = 1))
    /\ [](pc \in ParallelPcs => (~config.single_thread /\ Len(paths) >= 2))
    /\ []((pc = "exited" /\ config # NoConfig /\ error = NONE /\ paths = <<>>) =>
             /\ exit_code = 0
             /\ hash_calls = <<>> /\ io_ops = 0 /\ jobs = <<>> /\ idx = 0
             /\ OutFiles(stdout) = <<>> /\ ErrFiles(stderr) = <<>>
             /\ ~config.debug_mode => (stdout = <<>> /\ stderr = <<>>))

\* two paths with the single-thread flag: the second file is being hashed
\* by the sequential loop
C27_Witness ==
    /\ config # NoConfig /\ config.single_thread
    /\ Len(paths) = 2 /\ ~ParallelMode
    /\ pc \in SequentialPcs /\ idx = 2

\* two paths without the flag run in parallel; one path without the flag
\* runs sequentially; no path ends the run at once
C27_WitnessParallel ==
    pc \in ParallelPcs /\ Len(paths) = 2 /\ ~config.single_thread
C27_WitnessSingle ==
    pc \in SequentialPcs /\ Len(paths) = 1 /\ ~config.single_thread
C27_WitnessEmpty ==
    pc = "exited" /\ config # NoConfig /\ error = NONE /\ paths = <<>> /\ exit_code = 0

(***************************************************************************)
(* Termination.  The runs of the program and the calls of hash_file, with  *)
(* the one assumption that a step which can be taken is taken in the end:  *)
(* a read returns, a thread that is ready is scheduled.                    *)
(***************************************************************************)
InitBatch == Init \/ InitChunk

NextBatch == Next \/ NextChunk

LiveSpec == InitBatch /\ [][NextBatch]_vars /\ WF_vars(NextBatch)

\* the coordinator is in one of its modes
InMode == pc \in SequentialPcs \cup ParallelPcs

\* the run has ended with every path of the list reported
Completed == pc = "exited" /\ paths # <<>> /\ Reported = Len(paths)

\* hash_file has been called / has returned
HashFileCalled == pc = "unit" /\ call.fn = "hash_file"
HashFileReturned == pc = "unit" /\ call.fn = "hash_file" /\ call.done

\* C28: if every read returns, the batch runs to completion in both modes:
\* the loop of hash_file ends when a read returns zero bytes, the
\* coordinator reaches its end with every path reported, and in no
\* reachable state has it stopped before the last path.
C28_RunsToCompletion ==
    /\ HashFileCalled ~> HashFileReturned
    /\ [][(HashFileCalled /\ call.at = "loop" /\ call'.at = "done") =>
             (call.off = call.size \/ call.buffer = <<>>)]_vars
    /\ [](HashFileReturned => (call.strategy = "stream" => call.reads >= 1))
    /\ InMode ~> Completed
    /\ [](InMode => ENABLED Next)
    /\ []((pc \in {"worker_end", "exited"} /\ paths # <<>>) =>
             /\ Reported = Len(paths)
             /\ \A i \in DOMAIN paths : hash_calls[i] = 1)

\* main.rs in parallel mode: the first file could not be read, the second
\* was hashed, and the run has ended with both reported
C28_Witness ==
    /\ rev = "monolith" /\ ParallelMode /\ Completed
    /\ paths = <<"u", "a">>
    /\ ErrFiles(stderr) = <<"u">> /\ OutFiles(stdout) = <<"a">>

\* a file of two buffers and one byte has been streamed to its end
C28_WitnessLoop ==
    /\ HashFileReturned /\ call.strategy = "stream"
    /\ call.size = 65537 /\ call.reads >= 4

(***************************************************************************)
(* The parallel coordinator against the sequential one.                    *)
(***************************************************************************)
\* file_hashes_st as a function of the configuration and the list: the loop
\* run from the state acc over the paths ps
RECURSIVE SequentialRun(_, _, _)
SequentialRun(cfg, ps, acc) ==
    IF ps = <<>> THEN acc
    ELSE LET pathstr == Head(ps)
             file_hash == call_hasher(cfg.algorithm, cfg.encoding, pathstr).res
         IN  SequentialRun(cfg, Tail(ps),
                 IF file_hash.ok
                 THEN [acc EXCEPT !.out = @ \o Concat(println(ResultLine(cfg, file_hash.val, pathstr)))]
                 ELSE [acc EXCEPT !.err = Append(@, FileErrorMsg(pathstr, file_hash.err)),
                                  !.had_error = TRUE])

NoOutput == [out |-> <<>>, err |-> <<>>, had_error |-> FALSE]

IsFileError(m) == m[1] = "file_error"

\* the 'File error' diagnostics on standard error, in stream order
Diagnostics == SelectSeq(stderr, IsFileError)

\* the a-th element of s up to the b-th is t
IsPrefix(t, s) == Len(t) <= Len(s) /\ SubSeq(s, 1, Len(t)) = t

\* C29: for the same configuration and list, core/worker.rs writes the
\* same stdout lines and the same diagnostics in parallel mode as in
\* sequential mode: the results are collected per path and printed in the
\* order of the list after all workers have finished, whatever the
\* interleaving of the workers.
C29_ParallelAsSequential ==
    (rev = "modular" /\ paths # <<>> /\ error = NONE) =>
        LET ref == SequentialRun(config, paths, NoOutput) IN
        /\ BatchDone =>
              /\ stdout = ref.out
              /\ Diagnostics = ref.err
              /\ had_error = ref.had_error
              /\ (~config.debug_mode => stderr = ref.err)
        /\ (pc = "exited" => exit_code = IF ref.had_error THEN 1 ELSE 0)
        /\ (InMode /\ ParallelMode) =>
              /\ IsPrefix(stdout, ref.out) /\ IsPrefix(Diagnostics, ref.err)
              /\ (pc # "mt_print" => (stdout = <<>> /\ Diagnostics = <<>>))
              /\ (pc = "mt_print" =>
                     /\ \A i \in DOMAIN jobs : jobs[i].pc = "collected"
                     /\ stdout = SequentialRun(config, SubSeq(paths, 1, idx - 1), NoOutput).out
                     /\ Diagnostics = SequentialRun(config, SubSeq(paths, 1, idx - 1), NoOutput).err)

\* a parallel run of core/worker.rs over two different readable files, ended
\* with the two lines in the order of the list
C29_Witness ==
    /\ rev = "modular" /\ ParallelMode /\ BatchDone
    /\ paths = <<"big", "a">>
    /\ OutFiles(stdout) = <<"big", "a">> /\ Diagnostics = <<>>

\* the same list hashed sequentially
C29_WitnessSequential ==
    /\ rev = "modular" /\ ~ParallelMode /\ BatchDone
    /\ paths = <<"big", "a">>
    /\ OutFiles(stdout) = <<"big", "a">> /\ Diagnostics = <<>>

\* the worker of the second path has returned before that of the first
C29_WitnessOutOfOrder ==
    /\ rev = "modular" /\ pc = "mt_map" /\ paths = <<"big", "a">>
    /\ jobs[2].pc = "collected" /\ jobs[1].pc # "collected"

(***************************************************************************)
(* The helper threads of create_file_progress: in the runs of the program  *)
(* and under concurrent callers, with threads that are scheduled: a step   *)
(* that can be taken is taken in the end.                                  *)
(***************************************************************************)
\* the callers that take part; the others never call
LiveCallers == 3

IdleCaller == [at |-> "returned", helper |-> "none", signal |-> FALSE, dropped |-> FALSE]

InitSomeCallers ==
    /\ call \in [fn : {"create_file_progress"}, debug_mode : BOOLEAN,
                 callers : {[i \in Callers |-> IF i <= LiveCallers THEN NewCaller
                                               ELSE IdleCaller]}]
    /\ rev = "monolith"
    /\ args = NoArgs
    /\ stdin = <<>>
    /\ pc = "unit"
    /\ config = NoConfig
    /\ paths = <<>>
    /\ idx = 0
    /\ cur = NoResult
    /\ jobs = <<>>
    /\ coordinator = FALSE
    /\ overall = NoBar
    /\ spinners = {}
    /\ helper = "none"
    /\ signal = FALSE
    /\ active_threads = 0
    /\ stdout = <<>>
    /\ stdout_lock = 0
    /\ pending = <<>>
    /\ stderr = <<>>
    /\ had_error = FALSE
    /\ error = NONE
    /\ exit_code = -1
    /\ io_ops = 0
    /\ disk = FileSystem
    /\ hash_calls = <<>>

InitThreads == Init \/ InitSomeCallers

NextThreads == Next \/ NextCallers

ThreadSpec == InitThreads /\ [][NextThreads]_vars /\ WF_vars(NextThreads)

CallersRun == pc = "unit" /\ call.fn = "create_file_progress"

HelperLive(i) == CallersRun /\ call.callers[i].helper \in {"waiting", "spinning"}

\* the callers that have passed fetch_add, and those whose helper has ended
Spawned == {i \in Callers : call.callers[i].helper # "none"}
Ended == {i \in Callers : call.callers[i].helper = "done"}

\* every caller has returned, and returned from finish if it held a handle
AllHandlesFinished ==
    CallersRun /\ \A i \in Callers :
        call.callers[i].at = "returned" /\ ~call.callers[i].dropped

\* every caller has returned, every helper thread that was spawned has
\* ended, and the counter is 0
AllEnded ==
    /\ CallersRun /\ active_threads = 0 /\ Spawned = Ended
    /\ \A i \in Callers : call.callers[i].at = "returned"

\* the helper thread of the loop of main.rs file_hashes_st is alive
LoopHelperLive == pc # "unit" /\ helper \in {"waiting", "spinning"}

\* C30: every helper thread spawned by create_file_progress ends and
\* decrements ACTIVE_PROGRESS_THREADS exactly once, whether the signal comes
\* before the timeout, after it, or the sender is dropped with no signal:
\* increments and decrements match, the counter is 0 once all handles are
\* finished, and in sequential mode one helper thread at most is alive.
\* (A helper thread only moves from spawned to ended and stays ended, so
\* that every run reaches AllEnded says that each of them ends.)
C30_HelpersEndAndBalance ==
    /\ CallersRun ~> AllEnded
    /\ [][CallersRun =>
             \A i \in Callers :
                /\ call.callers[i].helper = "done" => call'.callers[i].helper = "done"
                /\ (call.callers[i].helper # "done" /\ call'.callers[i].helper = "done")
                      => (HelperLive(i) /\ active_threads' = active_threads - 1)
                /\ (call.callers[i].helper = "none" /\ call'.callers[i].helper # "none")
                      => active_threads' = active_threads + 1]_vars
    /\ [][CallersRun =>
             (active_threads' # active_threads =>
                 \E i \in Callers : call'.callers[i].helper # call.callers[i].helper)]_vars
    /\ [](CallersRun => active_threads = Cardinality(Spawned) - Cardinality(Ended))
    /\ [](AllHandlesFinished => (active_threads = 0 /\ Spawned = Ended))
    /\ LoopHelperLive ~> (pc # "unit" /\ helper = "none" /\ active_threads = 0)
    /\ [](pc # "unit" =>
             /\ active_threads = IF helper \in {"waiting", "spinning"} THEN 1 ELSE 0
             /\ helper # "none" => (rev = "monolith" /\ pc \in {"st_hash", "st_finish", "st_join"})
             /\ pc \in {"worker_end", "exited"} => active_threads = 0)

\* a helper whose sender was dropped while it waited has ended, and the
\* counter is back to 0 with every caller returned
C30_Witness ==
    /\ CallersRun /\ active_threads = 0
    /\ \A i \in Callers : call.callers[i].at = "returned"
    /\ \E i \in Callers : call.callers[i].dropped /\ call.callers[i].helper = "done"
    /\ \E i \in Callers : ~call.callers[i].dropped /\ call.callers[i].helper = "done"

\* a helper under its spinner whose sender has been dropped
C30_WitnessDroppedSpinning ==
    /\ CallersRun
    /\ \E i \in Callers : /\ call.callers[i].dropped
                          /\ call.callers[i].helper = "spinning" /\ i \in spinners

\* the loop of main.rs file_hashes_st at its second file, the helper of the
\* first joined and that of the second alive
C30_WitnessSequential ==
    /\ rev = "monolith" /\ pc = "st_hash" /\ idx = 2
    /\ helper = "waiting" /\ active_threads = 1

=============================================================================
